---- MODULE Spec2Model ----
(***************************************************************************)
(* Model of the real-time presence and location relay of findmyjowa:       *)
(*   - the Socket.IO relay (pages/api/socket.js, src/unnamed/part_001      *)
(*     lines 909-1059): rooms, the location-update and device-status       *)
(*     handlers with their storage round-trips, the offline sweeper;       *)
(*   - the device setup flow of the client (src/src/pages/index.js) against*)
(*     the devices table (src/unnamed/part_000);                           *)
(*   - the map of the page (src/src/components/MapComponent.js) and its    *)
(*     device list: presence colours and the viewport fitted to devices.   *)
(*                                                                         *)
(* Time is the server clock in milliseconds; it advances one sweeper       *)
(* period at a time, and every advance fires the setInterval callback.     *)
(* A storage call is issued by the synchronous part of a handler and       *)
(* resolved by a later step, so the round-trips of different handlers and  *)
(* of the sweeper interleave freely.                                       *)
(***************************************************************************)
EXTENDS Integers, Sequences, FiniteSets, TLC

VARIABLES
    now,              \* server clock, Date.now()
    devices,          \* table devices: id -> row
    location_history, \* table location_history: set of rows
    status,           \* socket -> "new" | "connected" | "closed"
    rooms,            \* socket -> set of rooms joined
    inbox,            \* socket -> messages delivered over the connection, in order
    emitted,          \* the io.to(room).emit(...) calls made by the last step
    events,           \* sequence of the events received by the server
    pc,               \* event index -> position of its handler
    locals,           \* event index -> locals of its handler
    sweeps,           \* ticks of the sweeper whose update is in flight
    sweepLog,         \* the last resolved sweeper tick and its outcome
    horizon,          \* the scenario explored, fixed by Init (see Horizons)
    user,             \* client -> signed-in user (or Null)
    deviceUUID,       \* client -> localStorage deviceUUID
    showDeviceNaming, \* client -> naming screen shown
    currentDevice,    \* client -> device row id held by the page (or Null)
    setupLog,         \* outcomes of the setup flows run so far
    allDeviceLocations, \* the page's device entries, the devices prop of the map
    selectedDevice,   \* device_id of the entry selected on the map (or NoDevice)
    mapView,          \* the last setView or fitBounds call made on the map
    shown,            \* the colours rendered last, per entry: marker and list dot
    logged,           \* what the last step wrote to the console of the page
    locationStatus,   \* the page's locationStatus: "checking", "granted" or "denied"
    flows,            \* calls of requestLocationPermission that await the position
    located,          \* calls of getCurrentLocationAndDisplay that await the position
    watchId,          \* the module's watchId (0 is null)
    watches,          \* the geolocation watches that are active
    fetches,          \* answers of fetchAllDeviceLocations on their way to the page
    handled,          \* messages of its socket the page has handled so far
    distanceFrom,     \* the device chosen as "from" in the distance calculator
    distanceTo,       \* the device chosen as "to"
    calculatedDistance, \* the distance shown, in metres (None is null)
    mounted,          \* the page component is mounted
    server            \* res.socket.server and what SocketHandler has set up on it

engineVars == <<now, devices, location_history, status, rooms, inbox, emitted,
                events, pc, locals, sweeps, sweepLog, horizon>>
clientVars == <<user, deviceUUID, showDeviceNaming, currentDevice, setupLog>>
viewVars == <<allDeviceLocations, selectedDevice, mapView, shown, logged>>
pageVars == <<locationStatus, flows, located, watchId, watches, fetches, handled,
              distanceFrom, distanceTo, calculatedDistance, mounted>>
serverVars == <<server>>
vars == <<engineVars, clientVars, viewVars, pageVars, serverVars>>

Null == "null"  \* a JS null or undefined in a field that holds a name or an object
None == -1      \* a JS null or undefined in a field that holds a number or a time
Unset == "unset" \* a handler local not assigned yet

----------------------------------------------------------------------------
(* Bounds *)
MaxTicks == 3    \* clock ticks explored in the long scenario
MaxEvents == 2   \* events explored in the busy scenario
MaxPendingSweeps == 1  \* sweeper updates in flight together
MaxRows == 3     \* rows the devices table may hold in the setup scenario
MaxPoints == 3   \* entries the page may hold in the map scenario
MaxRequests == 3 \* requests the socket endpoint is sent
MaxFlows == 2    \* calls of the page awaiting an answer together, per kind
MaxWatches == 2  \* geolocation watches active together
MaxFetches == 1  \* fetches of the device list in flight together

(* Program constants *)
SweepInterval == 30000
DemotionWindow == 2 * 60 * 1000

Sockets == {"s1", "s2"}
Users == {"u1", "u2"}
Devices == {"d1", "d2"}
UnknownDevice == "d9"
Clients == {"c1", "c2"}
Tokens == {"t1", "t2"}
BatteryLevels == {None, 80}
StorageResults == {"ok", "error", "throw"}

----------------------------------------------------------------------------
(* Rooms *)
GlobalRoom == "global"

UserRoom(userId) == "user-" \o userId

Members(room) == {s \in Sockets : status[s] = "connected" /\ room \in rooms[s]}

\* io.to(room).emit(type, payload): one message appended to the stream of
\* every socket that is in the room at the time of the call.
Deliver(box, room, msg) ==
    [s \in Sockets |-> IF s \in Members(room) THEN Append(box[s], msg) ELSE box[s]]

Msg(type, e, info) == [type |-> type, ev |-> e, deviceInfo |-> info]

Call(room, type, e, info) == [room |-> room, type |-> type, ev |-> e, deviceInfo |-> info]

----------------------------------------------------------------------------
(* The socket endpoint *)

\* res.socket.server before any request: no io, and nothing set up on it.
NoServer ==
    [io |-> FALSE, servers |-> 0, connectionHandlers |-> 0, intervals |-> 0,
     requests |-> 0]

\* The server as its first request leaves it.
ServerSetUp ==
    [io |-> TRUE, servers |-> 1, connectionHandlers |-> 1, intervals |-> 1,
     requests |-> 1]

\* new Server(...), io.on('connection', ...) and setInterval(...): each adds
\* one of its kind to what the server carries.
SetUp(srv) ==
    [srv EXCEPT !.io = TRUE, !.servers = @ + 1,
                !.connectionHandlers = @ + 1, !.intervals = @ + 1]

\* Variant: the handler sets the server up without testing server.io.
SocketHandlerUnguarded ==
    /\ server.requests < MaxRequests
    /\ server' = [SetUp(server) EXCEPT !.requests = @ + 1]
    /\ emitted' = <<>>
    /\ UNCHANGED <<now, devices, location_history, status, rooms, inbox, events, pc, locals, sweeps, sweepLog, horizon, clientVars, viewVars, pageVars>>

\* SocketHandler(req, res): set the server up if (!res.socket.server.io),
\* then res.end().
SocketHandler ==
    /\ server.requests < MaxRequests
    /\ server' = IF ~server.io
                 THEN [SetUp(server) EXCEPT !.requests = @ + 1]
                 ELSE [server EXCEPT !.requests = @ + 1]
    /\ emitted' = <<>>
    /\ UNCHANGED <<now, devices, location_history, status, rooms, inbox, events, pc, locals, sweeps, sweepLog, horizon, clientVars, viewVars, pageVars>>

----------------------------------------------------------------------------
(* Sessions *)
Connect(s) ==
    /\ s \in horizon.sockets
    /\ status[s] = "new"
    /\ status' = [status EXCEPT ![s] = "connected"]
    /\ emitted' = <<>>
    /\ UNCHANGED <<now, devices, location_history, rooms, inbox, events, pc, locals, sweeps, sweepLog, horizon, clientVars, viewVars, pageVars, serverVars>>

\* Variant: joining a user room replaces the rooms joined before.
JoinUserExclusive(s, userId) ==
    /\ status[s] = "connected"
    /\ rooms' = [rooms EXCEPT ![s] = {UserRoom(userId)}]
    /\ emitted' = <<>>
    /\ UNCHANGED <<now, devices, location_history, status, inbox, events, pc, locals, sweeps, sweepLog, horizon, clientVars, viewVars, pageVars, serverVars>>

JoinUser(s, userId) ==
    /\ userId \in horizon.users
    /\ status[s] = "connected"
    /\ rooms' = [rooms EXCEPT ![s] = @ \cup {UserRoom(userId)}]
    /\ emitted' = <<>>
    /\ UNCHANGED <<now, devices, location_history, status, inbox, events, pc, locals, sweeps, sweepLog, horizon, clientVars, viewVars, pageVars, serverVars>>

JoinGlobal(s) ==
    /\ status[s] = "connected"
    /\ rooms' = [rooms EXCEPT ![s] = @ \cup {GlobalRoom}]
    /\ emitted' = <<>>
    /\ UNCHANGED <<now, devices, location_history, status, inbox, events, pc, locals, sweeps, sweepLog, horizon, clientVars, viewVars, pageVars, serverVars>>

Disconnect(s) ==
    /\ status[s] = "connected"
    /\ status' = [status EXCEPT ![s] = "closed"]
    /\ rooms' = [rooms EXCEPT ![s] = {}]
    /\ inbox' = [inbox EXCEPT ![s] = <<>>]
    /\ emitted' = <<>>
    /\ UNCHANGED <<now, devices, location_history, events, pc, locals, sweeps, sweepLog, horizon, clientVars, viewVars, pageVars, serverVars>>

----------------------------------------------------------------------------
(* location-update handler *)
\* A report carries no timestamp, or the client's clock reading, which is
\* behind the server's by the time the report spent buffered.
ClientStamps == {None, now - SweepInterval}

\* The reports explored: of d1 with and without a timestamp, of d2, one
\* without coordinates, one that names no registered device and one that
\* names no device at all.
LocationEvents(s) ==
    [kind : {"location"}, from : {s}, deviceId : {"d1"},
     latitude : {1}, timestamp : ClientStamps,
     isOnline : {TRUE}, batteryLevel : {None}]
    \cup
    [kind : {"location"}, from : {s}, deviceId : {"d2", UnknownDevice, Null},
     latitude : {1}, timestamp : {None},
     isOnline : {TRUE}, batteryLevel : {None}]
    \cup
    [kind : {"location"}, from : {s}, deviceId : {"d1"},
     latitude : {None}, timestamp : {None},
     isOnline : {TRUE}, batteryLevel : {None}]

NoLocals == [timestamp |-> None, locationError |-> Unset,
             last_seen |-> None, deviceError |-> Unset, deviceInfo |-> Unset]

\* Variant: the timestamp is stored as it was sent, absent if it was absent.
InsertTimestampAsSent(ev) == ev.timestamp

\* timestamp: timestamp || new Date().toISOString()
InsertTimestamp(ev) == IF ev.timestamp = None THEN now ELSE ev.timestamp

\* The synchronous start of the handler: destructure and issue the insert.
LocationUpdate(s) ==
    /\ "location" \in horizon.kinds
    /\ status[s] = "connected"
    /\ Len(events) < horizon.events
    /\ \E ev \in LocationEvents(s) :
          /\ events' = Append(events, ev)
          /\ pc' = Append(pc, "insert")
          /\ locals' = Append(locals, [NoLocals EXCEPT !.timestamp = InsertTimestamp(ev)])
    /\ emitted' = <<>>
    /\ UNCHANGED <<now, devices, location_history, status, rooms, inbox, sweeps, sweepLog, horizon, clientVars, viewVars, pageVars, serverVars>>

\* The constraints of table location_history on an inserted row: latitude is
\* NOT NULL; device_id REFERENCES devices(id) and may be null.
InsertAccepted(ev) ==
    /\ ev.deviceId = Null \/ ev.deviceId \in DOMAIN devices
    /\ ev.latitude # None

\* .eq('id', deviceId): a deviceId that is undefined is no uuid to compare
\* the id with, and the update returns an error.
UpdateAccepted(ev) == ev.deviceId # Null

\* The insert resolves; on success the handler issues the device update.
InsertReturns(e, r) ==
    /\ pc[e] = "insert"
    /\ IF r = "ok" /\ InsertAccepted(events[e])
       THEN /\ location_history' = location_history \cup
                   {[ev |-> e, device_id |-> events[e].deviceId,
                     latitude |-> events[e].latitude,
                     timestamp |-> locals[e].timestamp]}
            /\ locals' = [locals EXCEPT ![e].locationError = Null, ![e].last_seen = now]
            /\ pc' = [pc EXCEPT ![e] = "update"]
       ELSE /\ location_history' = location_history
            /\ locals' = [locals EXCEPT ![e].locationError = "error"]
            /\ pc' = [pc EXCEPT ![e] = "aborted"]
    /\ emitted' = <<>>
    /\ UNCHANGED <<now, devices, status, rooms, inbox, events,
                   sweeps, sweepLog, horizon, clientVars, viewVars, pageVars, serverVars>>

\* Variant: last_seen is taken from the timestamp of the report.
UpdateFieldsEventTime(e) == [last_seen |-> locals[e].timestamp, is_online |-> TRUE]

\* .update({ last_seen: new Date().toISOString(), is_online: true }), the
\* date being the one read when the update was issued.
UpdateFields(e) == [last_seen |-> locals[e].last_seen, is_online |-> TRUE]

\* Variant: the error of the device update is logged but the handler goes on.
UpdateReturnsUnchecked(e, r) ==
    /\ pc[e] = "update"
    /\ devices' = devices
    /\ locals' = [locals EXCEPT ![e].deviceError = IF r = "ok" THEN Null ELSE "error"]
    /\ pc' = [pc EXCEPT ![e] = "lookup"]
    /\ emitted' = <<>>
    /\ UNCHANGED <<now, location_history, status, rooms, inbox, events,
                   sweeps, sweepLog, horizon, clientVars, viewVars, pageVars, serverVars>>

\* The device update resolves; on success the handler issues the lookup.
UpdateReturns(e, r) ==
    /\ pc[e] = "update"
    /\ IF r = "ok" /\ UpdateAccepted(events[e])
       THEN /\ devices' = [d \in DOMAIN devices |->
                   IF d = events[e].deviceId
                   THEN [devices[d] EXCEPT !.last_seen = UpdateFields(e).last_seen,
                                           !.is_online = UpdateFields(e).is_online]
                   ELSE devices[d]]
            /\ locals' = [locals EXCEPT ![e].deviceError = Null]
            /\ pc' = [pc EXCEPT ![e] = "lookup"]
       ELSE /\ devices' = devices
            /\ locals' = [locals EXCEPT ![e].deviceError = "error"]
            /\ pc' = [pc EXCEPT ![e] = "aborted"]
    /\ emitted' = <<>>
    /\ UNCHANGED <<now, location_history, status, rooms, inbox, events,
                   sweeps, sweepLog, horizon, clientVars, viewVars, pageVars, serverVars>>

\* devices_with_users row of the device: its owner stands for the metadata.
DeviceInfo(d, r) ==
    IF r = "ok" /\ d \in DOMAIN devices THEN devices[d].user_id ELSE Null

\* Variant: the second emit goes to every connected socket.
LocationBroadcastToAll(e, info) ==
    LET toGlobal == Deliver(inbox, GlobalRoom, Msg("location-updated", e, info))
    IN  IF info # Null
        THEN /\ inbox' = [s \in Sockets |->
                             IF status[s] = "connected"
                             THEN Append(toGlobal[s], Msg("device-location-updated", e, info))
                             ELSE toGlobal[s]]
             /\ emitted' =
                   <<Call(GlobalRoom, "location-updated", e, info),
                     Call(UserRoom(info), "device-location-updated", e, info)>>
        ELSE /\ inbox' = toGlobal
             /\ emitted' = <<Call(GlobalRoom, "location-updated", e, info)>>

\* The two emits that end the handler.
LocationBroadcast(e, info) ==
    LET toGlobal == Deliver(inbox, GlobalRoom, Msg("location-updated", e, info))
    IN  IF info # Null
        THEN /\ inbox' = Deliver(toGlobal, UserRoom(info),
                                 Msg("device-location-updated", e, info))
             /\ emitted' =
                   <<Call(GlobalRoom, "location-updated", e, info),
                     Call(UserRoom(info), "device-location-updated", e, info)>>
        ELSE /\ inbox' = toGlobal
             /\ emitted' = <<Call(GlobalRoom, "location-updated", e, info)>>

\* The owner lookup resolves; its error is not inspected, only its data.
LookupReturns(e, r) ==
    /\ pc[e] = "lookup"
    /\ IF r = "throw"
       THEN /\ pc' = [pc EXCEPT ![e] = "aborted"]
            /\ emitted' = <<>>
            /\ UNCHANGED <<inbox, locals>>
       ELSE /\ locals' = [locals EXCEPT ![e].deviceInfo = DeviceInfo(events[e].deviceId, r)]
            /\ LocationBroadcast(e, DeviceInfo(events[e].deviceId, r))
            /\ pc' = [pc EXCEPT ![e] = "done"]
    /\ UNCHANGED <<now, devices, location_history, status, rooms, events,
                   sweeps, sweepLog, horizon, clientVars, viewVars, pageVars, serverVars>>

----------------------------------------------------------------------------
(* device-status handler *)
StatusEvents(s) ==
    [kind : {"status"}, from : {s}, deviceId : {"d1"},
     latitude : {None}, timestamp : {None},
     isOnline : BOOLEAN, batteryLevel : BatteryLevels]

\* The synchronous start of the handler: issue the update with last_seen = now.
DeviceStatus(s) ==
    /\ "status" \in horizon.kinds
    /\ status[s] = "connected"
    /\ Len(events) < horizon.events
    /\ \E ev \in StatusEvents(s) :
          /\ events' = Append(events, ev)
          /\ pc' = Append(pc, "status")
          /\ locals' = Append(locals, [NoLocals EXCEPT !.last_seen = now])
    /\ emitted' = <<>>
    /\ UNCHANGED <<now, devices, location_history, status, rooms, inbox, sweeps, sweepLog, horizon, clientVars, viewVars, pageVars, serverVars>>

\* Variant: the event is relayed to global whether or not the update failed.
StatusReturnsAlwaysEmits(e, r) ==
    /\ pc[e] = "status"
    /\ devices' = devices
    /\ locals' = [locals EXCEPT ![e].deviceError = IF r = "ok" THEN Null ELSE "error"]
    /\ inbox' = Deliver(inbox, GlobalRoom, Msg("device-status-updated", e, Null))
    /\ emitted' = <<Call(GlobalRoom, "device-status-updated", e, Null)>>
    /\ pc' = [pc EXCEPT ![e] = "done"]
    /\ UNCHANGED <<now, location_history, status, rooms, events,
                   sweeps, sweepLog, horizon, clientVars, viewVars, pageVars, serverVars>>

\* The update resolves; the event is relayed to global when it did not fail.
StatusReturns(e, r) ==
    /\ pc[e] = "status"
    /\ IF r = "ok"
       THEN /\ devices' = [d \in DOMAIN devices |->
                   IF d = events[e].deviceId
                   THEN [devices[d] EXCEPT !.is_online = events[e].isOnline,
                                           !.battery_level = events[e].batteryLevel,
                                           !.last_seen = locals[e].last_seen]
                   ELSE devices[d]]
            /\ locals' = [locals EXCEPT ![e].deviceError = Null]
            /\ inbox' = Deliver(inbox, GlobalRoom, Msg("device-status-updated", e, Null))
            /\ emitted' = <<Call(GlobalRoom, "device-status-updated", e, Null)>>
            /\ pc' = [pc EXCEPT ![e] = "done"]
       ELSE /\ locals' = [locals EXCEPT ![e].deviceError = "error"]
            /\ pc' = [pc EXCEPT ![e] = "aborted"]
            /\ emitted' = <<>>
            /\ UNCHANGED <<devices, inbox>>
    /\ UNCHANGED <<now, location_history, status, rooms, events,
                   sweeps, sweepLog, horizon, clientVars, viewVars, pageVars, serverVars>>

----------------------------------------------------------------------------
(* Offline sweeper *)

\* Variant: the filter on last_seen is .gt instead of .lt.
StaleOnlineInverted(tick) ==
    {d \in DOMAIN devices :
        /\ devices[d].is_online
        /\ devices[d].last_seen # None
        /\ devices[d].last_seen > tick - DemotionWindow}

\* Variant: the update is filtered on is_online alone.
StaleOnlineAnyAge(tick) ==
    {d \in DOMAIN devices : devices[d].is_online}

\* The rows matched by .lt('last_seen', tick - 2 min).eq('is_online', true).
StaleOnline(tick) ==
    {d \in DOMAIN devices :
        /\ devices[d].is_online
        /\ devices[d].last_seen # None
        /\ devices[d].last_seen < tick - DemotionWindow}

\* Variant: the interval is cleared once a tick has failed.
SweepTickUntilFailure ==
    /\ sweepLog.error # "error"
    /\ now < horizon.ticks * SweepInterval
    /\ Cardinality(sweeps) < MaxPendingSweeps
    /\ now' = now + SweepInterval
    /\ sweeps' = sweeps \cup {now + SweepInterval}
    /\ emitted' = <<>>
    /\ UNCHANGED <<devices, location_history, status, rooms, inbox, events, pc, locals, sweepLog, horizon, clientVars, viewVars, pageVars, serverVars>>

\* The interval elapses: the clock moves one period on and the callback
\* issues the update, its threshold computed from the clock at that moment.
SweepTick ==
    /\ now < horizon.ticks * SweepInterval
    /\ Cardinality(sweeps) < MaxPendingSweeps
    /\ now' = now + SweepInterval
    /\ sweeps' = sweeps \cup {now + SweepInterval}
    /\ emitted' = <<>>
    /\ UNCHANGED <<devices, location_history, status, rooms, inbox, events, pc, locals, sweepLog, horizon, clientVars, viewVars, pageVars, serverVars>>

\* What the log keeps of a resolved tick: the rows whose flag it cleared and
\* whether it emitted, read off the step itself.
SweepRecord(tick, error) ==
    [tick |-> tick, error |-> error,
     demoted |-> {d \in DOMAIN devices : devices[d].is_online /\ ~devices'[d].is_online},
     notified |-> emitted' # <<>>]

\* Variant: clients are notified after every tick, failed or not.
SweepNotifiesAlways(r) == TRUE

\* if (!error): clients are notified when the update did not fail.
SweepNotifies(r) == r = "ok"

\* The update of a tick resolves.
SweepReturns(tick, r) ==
    /\ tick \in sweeps
    /\ sweeps' = sweeps \ {tick}
    /\ devices' = [d \in DOMAIN devices |->
           IF r = "ok" /\ d \in StaleOnline(tick)
           THEN [devices[d] EXCEPT !.is_online = FALSE]
           ELSE devices[d]]
    /\ IF SweepNotifies(r)
       THEN /\ inbox' = Deliver(inbox, GlobalRoom, Msg("devices-offline-check", 0, Null))
            /\ emitted' = <<Call(GlobalRoom, "devices-offline-check", 0, Null)>>
       ELSE inbox' = inbox /\ emitted' = <<>>
    /\ sweepLog' = SweepRecord(tick, IF r = "ok" THEN Null ELSE "error")
    /\ UNCHANGED <<now, location_history, status, rooms, events, pc, locals,
                   horizon, clientVars, viewVars, pageVars, serverVars>>

----------------------------------------------------------------------------
(* Device setup flow of the page *)

\* gen_random_uuid(): the id of the next row of table devices.
NewDeviceId == "d" \o ToString(Cardinality(DOMAIN devices) + 1)

\* .from('devices').select('*').eq('device_token', t).eq('user_id', u)
ExistingDevices(u, t) ==
    {d \in DOMAIN devices : devices[d].device_token = t /\ devices[d].user_id = u}

\* Variant: the column device_token carries no UNIQUE constraint.
NoTokenConflicts(t) == {}

\* device_token TEXT UNIQUE: the rows an insert of token t conflicts with.
TokenConflicts(t) == {d \in DOMAIN devices : devices[d].device_token = t}

Outcome(c, d, what) ==
    [client |-> c, user |-> user[c], token |-> deviceUUID[c], device |-> d, outcome |-> what]

\* handleAuth / checkUser: a user signs in on the page.
SignIn(c, u) ==
    /\ user[c] = Null
    /\ user' = [user EXCEPT ![c] = u]
    /\ UNCHANGED <<engineVars, deviceUUID, showDeviceNaming, currentDevice, setupLog, viewVars, pageVars, serverVars>>

\* checkAndCreateDevice, run after sign-in and by Retry: look the device up
\* by token and owner; reuse it, or show the naming screen.
CheckAndCreateDevice(c, r) ==
    /\ user[c] # Null
    /\ IF r # "ok"
       THEN UNCHANGED <<showDeviceNaming, currentDevice, setupLog>>
       ELSE IF ExistingDevices(user[c], deviceUUID[c]) # {}
       THEN \E d \in ExistingDevices(user[c], deviceUUID[c]) :
               /\ currentDevice' = [currentDevice EXCEPT ![c] = d]
               /\ showDeviceNaming' = [showDeviceNaming EXCEPT ![c] = FALSE]
               /\ setupLog' = setupLog \cup {Outcome(c, d, "found")}
       ELSE /\ showDeviceNaming' = [showDeviceNaming EXCEPT ![c] = TRUE]
            /\ UNCHANGED <<currentDevice, setupLog>>
    /\ UNCHANGED <<engineVars, user, deviceUUID, viewVars, pageVars, serverVars>>

\* saveDeviceName, the button of the naming screen: insert the row.
SaveDeviceName(c, named, r) ==
    /\ user[c] # Null
    /\ showDeviceNaming[c]
    /\ Cardinality(DOMAIN devices) < MaxRows
    /\ IF ~named \/ r # "ok"
       THEN UNCHANGED <<devices, showDeviceNaming, currentDevice, setupLog>>
       ELSE IF TokenConflicts(deviceUUID[c]) # {}
       THEN /\ setupLog' = setupLog \cup
                   {Outcome(c, d, "rejected") : d \in TokenConflicts(deviceUUID[c])}
            /\ UNCHANGED <<devices, showDeviceNaming, currentDevice>>
       ELSE /\ devices' = [d \in DOMAIN devices \cup {NewDeviceId} |->
                   IF d \in DOMAIN devices THEN devices[d]
                   ELSE [user_id |-> user[c], device_token |-> deviceUUID[c],
                         is_online |-> TRUE, last_seen |-> None,
                         battery_level |-> None]]
            /\ currentDevice' = [currentDevice EXCEPT ![c] = NewDeviceId]
            /\ showDeviceNaming' = [showDeviceNaming EXCEPT ![c] = FALSE]
            /\ setupLog' = setupLog \cup {Outcome(c, NewDeviceId, "created")}
    /\ UNCHANGED <<now, location_history, status, rooms, inbox, emitted,
                   events, pc, locals, sweeps, sweepLog, horizon, user, deviceUUID,
                   viewVars, pageVars, serverVars>>

\* handleSignOut: the device is written offline and the page forgets the
\* user and the device; the naming flag is left as it is.
HandleSignOut(c) ==
    /\ user[c] # Null
    /\ devices' = [d \in DOMAIN devices |->
           IF d = currentDevice[c]
           THEN [devices[d] EXCEPT !.is_online = FALSE, !.last_seen = now]
           ELSE devices[d]]
    /\ user' = [user EXCEPT ![c] = Null]
    /\ currentDevice' = [currentDevice EXCEPT ![c] = Null]
    /\ UNCHANGED <<now, location_history, status, rooms, inbox, emitted,
                   events, pc, locals, sweeps, sweepLog, horizon,
                   deviceUUID, showDeviceNaming, setupLog, viewVars, pageVars, serverVars>>

----------------------------------------------------------------------------
(* The map of the page and its device list *)

\* Coordinates are counted in metres of arc on the sphere of radius 6371e3 m
\* (one unit is 180 / (pi * 6371e3) of a degree): latitude 90 is QuarterArc.
\* A coordinate that is undefined or null is NoCoord.
NoCoord == 999999999
QuarterArc == 10007543
NoDevice == 0

\* L.map(...).setView([-6.2088, 106.8456], 13)
JakartaCenter == <<-690387, 11880688>>

MsPerMinute == 1000 * 60

\* JS truthiness of a coordinate, as in `d.latitude && d.longitude`:
\* undefined, null and 0 are all false.
Truthy(x) == x # NoCoord /\ x # 0

\* [parseFloat(device.latitude), parseFloat(device.longitude)]
LatLng(device) == <<device.latitude, device.longitude>>

Abs(x) == IF x < 0 THEN 0 - x ELSE x

\* Variant: the angle is never taken to be less than a metre of arc.
DistanceNeverZero(p, q) ==
    CASE p[2] = q[2] -> Abs(p[1] - q[1]) + 1
      [] p[1] = 0 /\ q[1] = 0 /\ Abs(p[2] - q[2]) <= 2 * QuarterArc -> Abs(p[2] - q[2]) + 1

\* The haversine distance R * c of two points, in metres. On one meridian
\* a = sin^2(dphi / 2) and c = |dphi|; on the equator a = sin^2(dlambda / 2)
\* and c = |dlambda|: the distance is the arc between the points. The points
\* explored lie on one meridian or on the equator.
Distance(p, q) ==
    CASE p[2] = q[2] -> Abs(p[1] - q[1])
      [] p[1] = 0 /\ q[1] = 0 /\ Abs(p[2] - q[2]) <= 2 * QuarterArc -> Abs(p[2] - q[2])

\* calculateDistance(lat1, lon1, lat2, lon2) of the page: the same formula.
CalculateDistance(lat1, lon1, lat2, lon2) == Distance(<<lat1, lon1>>, <<lat2, lon2>>)

\* Variant: the thresholds are compared with <= instead of <.
ZoomForDistanceInclusive(distance) ==
    IF distance <= 50 THEN [maxZoom |-> 18, padding |-> 10]
    ELSE IF distance <= 200 THEN [maxZoom |-> 17, padding |-> 15]
    ELSE IF distance <= 1000 THEN [maxZoom |-> 15, padding |-> 20]
    ELSE IF distance <= 5000 THEN [maxZoom |-> 13, padding |-> 30]
    ELSE IF distance <= 25000 THEN [maxZoom |-> 11, padding |-> 40]
    ELSE [maxZoom |-> 9, padding |-> 50]

\* The zoom ceiling and the padding chosen for a distance.
ZoomForDistance(distance) ==
    IF distance < 50 THEN [maxZoom |-> 18, padding |-> 10]
    ELSE IF distance < 200 THEN [maxZoom |-> 17, padding |-> 15]
    ELSE IF distance < 1000 THEN [maxZoom |-> 15, padding |-> 20]
    ELSE IF distance < 5000 THEN [maxZoom |-> 13, padding |-> 30]
    ELSE IF distance < 25000 THEN [maxZoom |-> 11, padding |-> 40]
    ELSE [maxZoom |-> 9, padding |-> 50]

Least(S) == CHOOSE x \in S : \A y \in S : x <= y
Greatest(S) == CHOOSE x \in S : \A y \in S : x >= y

NoBounds == [south |-> NoCoord, north |-> NoCoord, west |-> NoCoord, east |-> NoCoord]

\* L.latLngBounds() extended by each point of a non-empty sequence.
LatLngBounds(points) ==
    LET lats == {points[i][1] : i \in 1..Len(points)}
        lngs == {points[i][2] : i \in 1..Len(points)}
    IN  [south |-> Least(lats), north |-> Greatest(lats),
         west |-> Least(lngs), east |-> Greatest(lngs)]

\* map.setView(center, zoom)
SetView(center, zoom) ==
    [call |-> "setView", center |-> center, zoom |-> zoom,
     bounds |-> NoBounds, padding |-> 0, maxZoom |-> 0]

\* map.fitBounds(bounds, { padding: [padding, padding], maxZoom: maxZoom });
\* the center and the zoom that result are Leaflet's to compute.
FitBounds(bounds, padding, maxZoom) ==
    [call |-> "fitBounds", center |-> <<NoCoord, NoCoord>>, zoom |-> 0,
     bounds |-> bounds, padding |-> padding, maxZoom |-> maxZoom]

HasCoordinates(device) == Truthy(device.latitude) /\ Truthy(device.longitude)

\* Variant: every entry that has coordinates is taken, named or not.
ValidDevicesAnyId(deviceIds) ==
    SelectSeq(allDeviceLocations, HasCoordinates)

\* devices.filter(d => deviceIds.includes(d.device_id) && d.latitude && d.longitude)
ValidDevices(deviceIds) ==
    LET Named(d) == d.device_id \in deviceIds /\ HasCoordinates(d)
    IN  SelectSeq(allDeviceLocations, Named)

\* Variant: the distance is taken between the first and the last device.
FitForFirstAndLast(validDevices) ==
    LET distance == Distance(LatLng(validDevices[1]), LatLng(validDevices[Len(validDevices)]))
    IN  FitBounds(LatLngBounds([i \in 1..Len(validDevices) |-> LatLng(validDevices[i])]),
                  ZoomForDistance(distance).padding, ZoomForDistance(distance).maxZoom)

\* The branch of showBothDevices for two devices or more: the bounds of all
\* of them, the zoom ceiling and padding of the distance of the first two.
FitFor(validDevices) ==
    LET distance == Distance(LatLng(validDevices[1]), LatLng(validDevices[2]))
    IN  FitBounds(LatLngBounds([i \in 1..Len(validDevices) |-> LatLng(validDevices[i])]),
                  ZoomForDistance(distance).padding, ZoomForDistance(distance).maxZoom)

\* Variant: a single device is shown at the zoom of the map's first view.
SingleDeviceViewFar(device) == SetView(LatLng(device), 13)

\* setView([parseFloat(device.latitude), parseFloat(device.longitude)], 16)
SingleDeviceView(device) == SetView(LatLng(device), 16)

NoLog == [method |-> "none", deviceIds |-> {}, valid |-> None, distance |-> None]

\* console.log('showBothDevices called with:', deviceIds), then 'Early
\* return', or 'Valid devices found:' and, of two devices or more,
\* 'Calculated distance:'.
ShowBothLog(deviceIds, valid, distance) ==
    [method |-> "showBothDevices", deviceIds |-> deviceIds,
     valid |-> valid, distance |-> distance]

\* showBothDevices(deviceIds), the method the map exposes to the page.
ShowBothDevices(deviceIds) ==
    /\ IF ~shown.rendered \/ deviceIds = {}
       THEN /\ mapView' = mapView
            /\ logged' = ShowBothLog(deviceIds, None, None)
       ELSE IF Len(ValidDevices(deviceIds)) = 0
       THEN /\ mapView' = mapView
            /\ logged' = ShowBothLog(deviceIds, 0, None)
       ELSE IF Len(ValidDevices(deviceIds)) = 1
       THEN /\ mapView' = SingleDeviceView(ValidDevices(deviceIds)[1])
            /\ logged' = ShowBothLog(deviceIds, 1, None)
       ELSE /\ mapView' = FitFor(ValidDevices(deviceIds))
            /\ logged' = ShowBothLog(deviceIds, Len(ValidDevices(deviceIds)),
                                     Distance(LatLng(ValidDevices(deviceIds)[1]),
                                              LatLng(ValidDevices(deviceIds)[2])))
    /\ UNCHANGED <<engineVars, clientVars, pageVars, serverVars, allDeviceLocations, selectedDevice, shown>>

\* The time shown as last update, in ms: device.timestamp || device.last_seen
LastUpdate(device) ==
    IF device.timestamp # None THEN device.timestamp ELSE device.last_seen

\* Variant: a device is recent up to and including five minutes.
MarkerColorInclusive(device) ==
    IF device.is_online /\ LastUpdate(device) # None
          /\ now - LastUpdate(device) <= 5 * MsPerMinute
    THEN "#22c55e"
    ELSE IF device.is_online /\ LastUpdate(device) # None
          /\ now - LastUpdate(device) < 30 * MsPerMinute
    THEN "#eab308"
    ELSE "#ef4444"

\* markerColor: timeDiff = (now - lastUpdate) / 1000 / 60 compared with 5 and
\* 30; of an invalid date timeDiff is NaN and both comparisons are false.
MarkerColor(device) ==
    IF device.is_online /\ LastUpdate(device) # None
          /\ now - LastUpdate(device) < 5 * MsPerMinute
    THEN "#22c55e"
    ELSE IF device.is_online /\ LastUpdate(device) # None
          /\ now - LastUpdate(device) < 30 * MsPerMinute
    THEN "#eab308"
    ELSE "#ef4444"

\* The dot of the device list of the page: timeDiff is taken from
\* device.timestamp alone, isRecent and isStale from it.
ListDotClass(device) ==
    LET known == device.timestamp # None
        isRecent == known /\ now - device.timestamp < 5 * MsPerMinute
        isStale == known /\ now - device.timestamp >= 5 * MsPerMinute
                         /\ now - device.timestamp < 30 * MsPerMinute
    IN  IF device.is_online /\ isRecent THEN "bg-green-500"
        ELSE IF device.is_online /\ isStale THEN "bg-yellow-500"
        ELSE "bg-red-500"

NoMarker == "none"

\* The markers and the list as drawn from the entries at the present time.
Drawn ==
    [rendered |-> TRUE,
     marker |-> [i \in 1..Len(allDeviceLocations) |->
                    IF HasCoordinates(allDeviceLocations[i])
                    THEN MarkerColor(allDeviceLocations[i]) ELSE NoMarker],
     list |-> [i \in 1..Len(allDeviceLocations) |-> ListDotClass(allDeviceLocations[i])]]

\* The end of the marker effect: fit the map to the markers unless a device
\* is selected.
FitToMarkers(selected) ==
    LET withMarker == SelectSeq(allDeviceLocations, HasCoordinates)
    IN  IF Len(withMarker) > 0 /\ selected = NoDevice
        THEN IF Len(allDeviceLocations) = 1
             THEN SingleDeviceView(allDeviceLocations[1])
             ELSE FitBounds(LatLngBounds([i \in 1..Len(withMarker) |-> LatLng(withMarker[i])]),
                            20, 16)
        ELSE mapView

\* The page renders and the effects of the map run: markers, then the fit.
RenderMarkers ==
    /\ ~shown.rendered
    /\ shown' = Drawn
    /\ mapView' = FitToMarkers(selectedDevice)
    /\ logged' = NoLog
    /\ UNCHANGED <<engineVars, clientVars, pageVars, serverVars, allDeviceLocations, selectedDevice>>

\* A click on the marker of a device selects it: the map centers on it and
\* the markers are drawn again, without a fit.
SelectDevice(i) ==
    /\ shown.rendered
    /\ i \in 1..Len(allDeviceLocations)
    /\ shown.marker[i] # NoMarker
    /\ allDeviceLocations[i].device_id # selectedDevice
    /\ selectedDevice' = allDeviceLocations[i].device_id
    /\ mapView' = SingleDeviceView(allDeviceLocations[i])
    /\ shown' = Drawn
    /\ logged' = NoLog
    /\ UNCHANGED <<engineVars, clientVars, pageVars, serverVars, allDeviceLocations>>

\* "Clear selection": the markers are drawn again and the map is fitted.
ClearSelection ==
    /\ shown.rendered
    /\ selectedDevice # NoDevice
    /\ selectedDevice' = NoDevice
    /\ shown' = Drawn
    /\ mapView' = FitToMarkers(NoDevice)
    /\ logged' = NoLog
    /\ UNCHANGED <<engineVars, clientVars, pageVars, serverVars, allDeviceLocations>>

\* The page before it has rendered anything.
InitView ==
    /\ allDeviceLocations = <<>>
    /\ selectedDevice = NoDevice
    /\ mapView = SetView(JakartaCenter, 13)
    /\ shown = [rendered |-> FALSE, marker |-> <<>>, list |-> <<>>]
    /\ logged = NoLog

----------------------------------------------------------------------------
(* The distance calculator of the page *)

\* allDeviceLocations.find(d => d.device_id === deviceId): the index of the
\* first entry of the device, 0 if there is none.
FindDevice(deviceId) ==
    IF \E i \in 1..Len(allDeviceLocations) : allDeviceLocations[i].device_id = deviceId
    THEN Least({i \in 1..Len(allDeviceLocations) : allDeviceLocations[i].device_id = deviceId})
    ELSE 0

\* calculateDistanceBetweenDevices(): the distance of the two entries, null
\* when one of the devices has no entry.
CalculateDistanceBetweenDevices(from, to) ==
    IF FindDevice(from) # 0 /\ FindDevice(to) # 0
    THEN CalculateDistance(allDeviceLocations[FindDevice(from)].latitude,
                           allDeviceLocations[FindDevice(from)].longitude,
                           allDeviceLocations[FindDevice(to)].latitude,
                           allDeviceLocations[FindDevice(to)].longitude)
    ELSE None

\* The effect on [distanceFrom, distanceTo, allDeviceLocations]: the distance
\* is computed again when two different devices are chosen, and left as it
\* was otherwise.
DistanceEffect(from, to) ==
    IF from # NoDevice /\ to # NoDevice /\ from # to
    THEN CalculateDistanceBetweenDevices(from, to)
    ELSE calculatedDistance

\* onChange of the "From Device" select.
SetDistanceFrom(id) ==
    /\ id = NoDevice \/ FindDevice(id) # 0
    /\ id # distanceFrom
    /\ distanceFrom' = id
    /\ calculatedDistance' = DistanceEffect(id, distanceTo)
    /\ UNCHANGED <<engineVars, clientVars, viewVars, serverVars, locationStatus, flows,
                   located, watchId, watches, fetches, handled, distanceTo, mounted>>

\* onChange of the "To Device" select.
SetDistanceTo(id) ==
    /\ id = NoDevice \/ FindDevice(id) # 0
    /\ id # distanceTo
    /\ distanceTo' = id
    /\ calculatedDistance' = DistanceEffect(distanceFrom, id)
    /\ UNCHANGED <<engineVars, clientVars, viewVars, serverVars, locationStatus, flows,
                   located, watchId, watches, fetches, handled, distanceFrom, mounted>>

\* reverseDistanceSelection, the button between the selects.
ReverseDistanceSelection ==
    /\ distanceFrom # NoDevice /\ distanceTo # NoDevice
    /\ distanceFrom # distanceTo
    /\ distanceFrom' = distanceTo
    /\ distanceTo' = distanceFrom
    /\ calculatedDistance' = DistanceEffect(distanceTo, distanceFrom)
    /\ UNCHANGED <<engineVars, clientVars, viewVars, serverVars, locationStatus, flows,
                   located, watchId, watches, fetches, handled, mounted>>

\* "Show Both on Map", shown with the distance: showBothDevices of the two
\* devices, then setSelectedDevice(null); no device is selected when the
\* button is used here.
ShowBothOnMap ==
    /\ calculatedDistance # None
    /\ distanceFrom # NoDevice /\ distanceTo # NoDevice
    /\ distanceFrom # distanceTo
    /\ selectedDevice = NoDevice
    /\ ShowBothDevices({distanceFrom, distanceTo})

\* The page before its first effect has run.
InitPage ==
    /\ locationStatus = "checking"
    /\ flows = <<>>
    /\ located = {}
    /\ watchId = 0
    /\ watches = {}
    /\ fetches = <<>>
    /\ handled = 0
    /\ distanceFrom = NoDevice
    /\ distanceTo = NoDevice
    /\ calculatedDistance = None
    /\ mounted = TRUE

----------------------------------------------------------------------------
(* The relay *)
DeviceRow(u, t) ==
    [user_id |-> u, device_token |-> t, is_online |-> FALSE,
     last_seen |-> None, battery_level |-> None]

InitClient ==
    /\ user = [c \in Clients |-> Null]
    /\ deviceUUID = [c \in Clients |-> "t1"]
    /\ showDeviceNaming = [c \in Clients |-> FALSE]
    /\ currentDevice = [c \in Clients |-> Null]
    /\ setupLog = {}

\* The relay starts over a store in which d1 and d2 are registered: d1
\* reported last 90 s before the start and is still flagged online, d2 has
\* never reported.
InitRelay ==
    /\ now = 0
    /\ devices = [d \in Devices |->
                     IF d = "d1"
                     THEN [DeviceRow("u1", "t1") EXCEPT !.is_online = TRUE,
                                                       !.last_seen = 0 - 3 * SweepInterval]
                     ELSE DeviceRow("u2", "t2")]
    /\ location_history = {}
    /\ status = [s \in Sockets |-> "new"]
    /\ rooms = [s \in Sockets |-> {}]
    /\ inbox = [s \in Sockets |-> <<>>]
    /\ emitted = <<>>
    /\ events = <<>>
    /\ pc = <<>>
    /\ locals = <<>>
    /\ sweeps = {}
    /\ sweepLog = [tick |-> None, error |-> Unset, demoted |-> {}, notified |-> FALSE]
    /\ InitClient
    /\ InitView
    /\ InitPage

\* The scenarios explored, each bounding the clock ticks, the events received,
\* the sockets that connect, the user rooms asked for and the kinds of event:
\* a long one (the sweeper's window elapses), a busy one (several reports in
\* flight together) and a crowded one (two sockets, all rooms).
Horizons ==
    { [ticks |-> MaxTicks, events |-> 1, sockets |-> {"s1"},
       users |-> {}, kinds |-> {"location", "status"}],
      [ticks |-> 0, events |-> MaxEvents, sockets |-> {"s1"},
       users |-> {"u1"}, kinds |-> {"location"}],
      [ticks |-> 1, events |-> 1, sockets |-> Sockets,
       users |-> Users, kinds |-> {"location", "status"}] }

Init ==
    /\ InitRelay
    /\ server = ServerSetUp
    /\ horizon \in Horizons

Next ==
    \/ \E s \in Sockets : Connect(s)
    \/ \E s \in Sockets, u \in Users : JoinUser(s, u)
    \/ \E s \in Sockets : JoinGlobal(s)
    \/ \E s \in Sockets : Disconnect(s)
    \/ \E s \in Sockets : LocationUpdate(s)
    \/ \E e \in 1..MaxEvents, r \in StorageResults : e <= Len(events) /\ InsertReturns(e, r)
    \/ \E e \in 1..MaxEvents, r \in StorageResults : e <= Len(events) /\ UpdateReturns(e, r)
    \/ \E e \in 1..MaxEvents, r \in StorageResults : e <= Len(events) /\ LookupReturns(e, r)
    \/ \E s \in Sockets : DeviceStatus(s)
    \/ \E e \in 1..MaxEvents, r \in StorageResults : e <= Len(events) /\ StatusReturns(e, r)
    \/ SweepTick
    \/ \E t \in sweeps, r \in StorageResults : SweepReturns(t, r)

Spec == Init /\ [][Next]_vars

\* The setup flows of two pages over a store that starts empty; the pages
\* share a browser profile (one deviceUUID) or not.
InitSetup ==
    /\ now = 0
    /\ devices = [d \in {} |-> DeviceRow("u1", "t1")]
    /\ location_history = {}
    /\ status = [s \in Sockets |-> "new"]
    /\ rooms = [s \in Sockets |-> {}]
    /\ inbox = [s \in Sockets |-> <<>>]
    /\ emitted = <<>>
    /\ events = <<>>
    /\ pc = <<>>
    /\ locals = <<>>
    /\ sweeps = {}
    /\ sweepLog = [tick |-> None, error |-> Unset, demoted |-> {}, notified |-> FALSE]
    /\ horizon = [ticks |-> 0, events |-> 0, sockets |-> {}, users |-> {}, kinds |-> {}]
    /\ user = [c \in Clients |-> Null]
    /\ deviceUUID \in [Clients -> Tokens]
    /\ showDeviceNaming = [c \in Clients |-> FALSE]
    /\ currentDevice = [c \in Clients |-> Null]
    /\ setupLog = {}
    /\ InitView
    /\ InitPage
    /\ server = ServerSetUp

NextSetup ==
    \/ \E c \in Clients, u \in Users : SignIn(c, u)
    \/ \E c \in Clients, r \in StorageResults : CheckAndCreateDevice(c, r)
    \/ \E c \in Clients, named \in BOOLEAN, r \in StorageResults : SaveDeviceName(c, named, r)
    \/ \E c \in Clients : HandleSignOut(c)

SpecSetup == InitSetup /\ [][NextSetup]_vars

\* The socket endpoint from the first request on: requests, the connections
\* the server accepts once it is set up, and the ticks of its interval.
InitServer ==
    /\ InitRelay
    /\ server = NoServer
    /\ horizon = [ticks |-> MaxTicks - 1, events |-> 0, sockets |-> Sockets,
                  users |-> {}, kinds |-> {}]

NextServer ==
    \/ SocketHandler
    \/ \E s \in Sockets : server.connectionHandlers > 0 /\ Connect(s)
    \/ \E s \in Sockets : JoinGlobal(s)
    \/ \E s \in Sockets : Disconnect(s)
    \/ server.intervals > 0 /\ SweepTick
    \/ \E t \in sweeps, r \in StorageResults : SweepReturns(t, r)

SpecServer == InitServer /\ [][NextServer]_vars

\* The map over the entries the page holds, up to MaxPoints of them: one
\* entry with every presence explored, or several entries (the second at
\* every distance explored from the first) on the meridian of the map's first
\* center; the page's clock reads ViewTime.
ViewTime == 40 * MsPerMinute

Entry(lat, lng, online, ts, seen) ==
    [device_id |-> NoDevice, latitude |-> lat, longitude |-> lng,
     is_online |-> online, timestamp |-> ts, last_seen |-> seen]

TimestampSamples ==
    {ViewTime + MsPerMinute, ViewTime, ViewTime - 2 * MsPerMinute,
     ViewTime - 5 * MsPerMinute + 1, ViewTime - 5 * MsPerMinute,
     ViewTime - 10 * MsPerMinute,
     ViewTime - 30 * MsPerMinute + 1, ViewTime - 30 * MsPerMinute,
     ViewTime - 40 * MsPerMinute}

DistanceSamples ==
    {0, 30, 49, 50, 51, 199, 200, 999, 1000, 4999, 5000, 10000, 24999, 25000, 40000}

SpecialPlaces ==
    { <<0, JakartaCenter[2]>>,          \* on the equator
      <<JakartaCenter[1], 0>>,          \* on the Greenwich meridian
      <<NoCoord, NoCoord>> }            \* no coordinates

PresenceEntries ==
    { Entry(JakartaCenter[1], JakartaCenter[2], online, ts, None) :
          online \in BOOLEAN, ts \in TimestampSamples }
    \cup
    { Entry(JakartaCenter[1], JakartaCenter[2], online, None, seen) :
          online \in BOOLEAN, seen \in {None, ViewTime - 2 * MsPerMinute} }

FirstEntries ==
    { Entry(JakartaCenter[1], JakartaCenter[2], TRUE, ViewTime, None) }
    \cup
    { Entry(p[1], p[2], TRUE, ViewTime, None) : p \in SpecialPlaces }

SecondEntries ==
    { Entry(JakartaCenter[1] + d, JakartaCenter[2], TRUE, ViewTime, None) :
          d \in DistanceSamples }
    \cup
    { Entry(p[1], p[2], TRUE, ViewTime, None) : p \in SpecialPlaces }

LaterEntries ==
    { Entry(JakartaCenter[1] - 60000, JakartaCenter[2], TRUE, ViewTime, None),
      Entry(QuarterArc, JakartaCenter[2], TRUE, ViewTime, None),
      Entry(0, JakartaCenter[2], TRUE, ViewTime, None),
      Entry(NoCoord, NoCoord, TRUE, ViewTime, None) }

EntriesAt(i) ==
    IF i = 1 THEN FirstEntries ELSE IF i = 2 THEN SecondEntries ELSE LaterEntries

\* The lists of n entries: the i-th carries device_id i.
RECURSIVE ListsOf(_)
ListsOf(n) ==
    IF n = 0 THEN {<<>>}
    ELSE { Append(l, [e EXCEPT !.device_id = n]) : l \in ListsOf(n - 1), e \in EntriesAt(n) }

DeviceLists ==
    UNION { ListsOf(n) : n \in 0..MaxPoints }
    \cup { <<[e EXCEPT !.device_id = 1]>> : e \in PresenceEntries }

\* The ids showBothDevices is called with: none, one that names no entry
\* (0), or some of the ids the entries may carry.
DeviceIdSets == {ids \in SUBSET (0..MaxPoints) : 0 \in ids => ids = {0}}

InitMap ==
    /\ now = ViewTime
    /\ devices = [d \in {} |-> DeviceRow("u1", "t1")]
    /\ location_history = {}
    /\ status = [s \in Sockets |-> "new"]
    /\ rooms = [s \in Sockets |-> {}]
    /\ inbox = [s \in Sockets |-> <<>>]
    /\ emitted = <<>>
    /\ events = <<>>
    /\ pc = <<>>
    /\ locals = <<>>
    /\ sweeps = {}
    /\ sweepLog = [tick |-> None, error |-> Unset, demoted |-> {}, notified |-> FALSE]
    /\ horizon = [ticks |-> 0, events |-> 0, sockets |-> {}, users |-> {}, kinds |-> {}]
    /\ InitClient
    /\ allDeviceLocations \in DeviceLists
    /\ selectedDevice = NoDevice
    /\ mapView = SetView(JakartaCenter, 13)
    /\ shown = [rendered |-> FALSE, marker |-> <<>>, list |-> <<>>]
    /\ logged = NoLog
    /\ InitPage
    /\ server = ServerSetUp

NextMap ==
    \/ RenderMarkers
    \/ \E deviceIds \in DeviceIdSets : ShowBothDevices(deviceIds)
    \/ \E i \in 1..MaxPoints : SelectDevice(i)
    \/ ClearSelection

SpecMap == InitMap /\ [][NextMap]_vars

\* The distance calculator over two entries, each at one of the places
\* explored: on the meridian of the map's first center (the center, 30 m
\* north of it, the equator, the poles), on the equator (longitude 0 and
\* 180), and on the Greenwich meridian. Two places are taken together when
\* they lie on one meridian or both on the equator.
MeasuredPlaces ==
    { JakartaCenter,
      <<JakartaCenter[1] + 30, JakartaCenter[2]>>,
      <<0, JakartaCenter[2]>>,
      <<QuarterArc, JakartaCenter[2]>>,
      <<0 - QuarterArc, JakartaCenter[2]>>,
      <<0, 0>>,
      <<0, 2 * QuarterArc>>,
      <<JakartaCenter[1], 0>> }

Measurable(p, q) ==
    \/ p[2] = q[2]
    \/ p[1] = 0 /\ q[1] = 0 /\ Abs(p[2] - q[2]) <= 2 * QuarterArc

MeasuredLists ==
    { << [Entry(p[1], p[2], TRUE, ViewTime, None) EXCEPT !.device_id = 1],
         [Entry(q[1], q[2], TRUE, ViewTime, None) EXCEPT !.device_id = 2] >> :
          <<p, q>> \in {pq \in MeasuredPlaces \X MeasuredPlaces : Measurable(pq[1], pq[2])} }

InitDistance ==
    /\ now = ViewTime
    /\ devices = [d \in {} |-> DeviceRow("u1", "t1")]
    /\ location_history = {}
    /\ status = [s \in Sockets |-> "new"]
    /\ rooms = [s \in Sockets |-> {}]
    /\ inbox = [s \in Sockets |-> <<>>]
    /\ emitted = <<>>
    /\ events = <<>>
    /\ pc = <<>>
    /\ locals = <<>>
    /\ sweeps = {}
    /\ sweepLog = [tick |-> None, error |-> Unset, demoted |-> {}, notified |-> FALSE]
    /\ horizon = [ticks |-> 0, events |-> 0, sockets |-> {}, users |-> {}, kinds |-> {}]
    /\ InitClient
    /\ allDeviceLocations \in MeasuredLists
    /\ selectedDevice = NoDevice
    /\ mapView = SetView(JakartaCenter, 13)
    /\ shown = [rendered |-> FALSE, marker |-> <<>>, list |-> <<>>]
    /\ logged = NoLog
    /\ InitPage
    /\ server = ServerSetUp

NextDistance ==
    \/ RenderMarkers
    \/ \E id \in 0..2 : SetDistanceFrom(id)
    \/ \E id \in 0..2 : SetDistanceTo(id)
    \/ ReverseDistanceSelection
    \/ ShowBothOnMap

SpecDistance == InitDistance /\ [][NextDistance]_vars

----------------------------------------------------------------------------
(* The page: sign-in, location permission, tracking and the device list *)

\* The page whose handlers are followed, the socket it opened and the token
\* generateOrGetDeviceUUID() made for its browser, which no row carries yet.
Page == "c1"
PageSocket == "s1"
PageToken == "t3"
PageUser == "u1"

\* What a function defined in the current render sees of the page's state.
Closure(c) == [user |-> user[c], currentDevice |-> currentDevice[c]]

Without(seq, i) == SubSeq(seq, 1, i - 1) \o SubSeq(seq, i + 1, Len(seq))

\* updateDeviceStatus(isOnlineStatus) of a render that held device `seen`:
\* nothing without a device; else the row is written with last_seen = the
\* current time, and a failed write is only logged. The 'device-status'
\* event it then emits is the relay's to handle.
StatusWritten(seen, isOnlineStatus, r) ==
    IF seen # Null /\ r = "ok" /\ seen \in DOMAIN devices
    THEN [devices EXCEPT ![seen] = [@ EXCEPT !.is_online = isOnlineStatus,
                                            !.last_seen = now]]
    ELSE devices

\* The id navigator.geolocation.watchPosition returns: one not in use.
NextWatchId == 1 + Greatest({0, watchId} \cup {w.id : w \in watches})

\* startLocationTracking() of a render that held device `seen`: returns at
\* once without a device; else registers a watch and stores its id in
\* watchId, whatever watchId held.
StartLocationTracking(seen) ==
    IF seen = Null
    THEN UNCHANGED <<watchId, watches>>
    ELSE /\ watchId' = NextWatchId
         /\ watches' = watches \cup {[id |-> NextWatchId, device |-> seen]}

\* clearWatch(watchId) when watchId is set.
ClearWatch == {w \in watches : w.id # watchId}

\* Rows of location_history whose device is registered (the inner join).
JoinedRows == {row \in location_history : row.device_id \in DOMAIN devices}

LatestOf(rows) == CHOOSE row \in rows : \A other \in rows :
                      <<row.timestamp, row.ev>> = <<other.timestamp, other.ev>>
                      \/ row.timestamp > other.timestamp
                      \/ (row.timestamp = other.timestamp /\ row.ev > other.ev)

RECURSIVE NewestFirst(_)
NewestFirst(rows) ==
    IF rows = {} THEN <<>>
    ELSE <<LatestOf(rows)>> \o NewestFirst(rows \ {LatestOf(rows)})

RowEntry(row) ==
    [Entry(row.latitude, row.latitude, devices[row.device_id].is_online,
           row.timestamp, None) EXCEPT !.device_id = row.device_id]

\* View current_device_locations: DISTINCT ON (device_id), the latest row of
\* each device.
ViewData ==
    NewestFirst({LatestOf({row \in JoinedRows : row.device_id = d}) :
                    d \in {row.device_id : row \in JoinedRows}})

\* The fallback query: the rows of location_history, newest first, each
\* mapped to an entry.
FallbackData == NewestFirst(JoinedRows)

RECURSIVE Mapped(_)
Mapped(rows) ==
    IF rows = <<>> THEN <<>> ELSE <<RowEntry(Head(rows))>> \o Mapped(Tail(rows))

\* What fetchAllDeviceLocations() will hand to setAllDeviceLocations, if
\* anything: the view's rows; when the view fails, the fallback's; nothing
\* when the fallback fails too; the empty list after an exception.
Fetched(r1, r2) ==
    IF r1 = "throw" \/ (r1 = "error" /\ r2 = "throw") THEN [set |-> TRUE, data |-> <<>>]
    ELSE IF r1 = "ok" THEN [set |-> TRUE, data |-> Mapped(ViewData)]
    ELSE IF r2 = "ok" THEN [set |-> TRUE, data |-> Mapped(FallbackData)]
    ELSE [set |-> FALSE, data |-> <<>>]

\* prev.filter(loc => loc.device_id !== deviceId)
RECURSIVE OthersThan(_, _)
OthersThan(list, deviceId) ==
    IF list = <<>> THEN <<>>
    ELSE IF Head(list).device_id = deviceId THEN OthersThan(Tail(list), deviceId)
    ELSE <<Head(list)>> \o OthersThan(Tail(list), deviceId)

pageRest == <<selectedDevice, mapView, shown, logged, distanceFrom, distanceTo,
              calculatedDistance, server, horizon, deviceUUID, setupLog>>
relayRest == <<now, location_history, status, rooms, inbox, emitted, events, pc,
               locals, sweeps, sweepLog>>

\* handleAuth signs the user in; the effects on isSignedIn then call
\* requestLocationPermission() and fetchAllDeviceLocations() from the render
\* that followed.
PageSignIn(c, u, r1, r2) ==
    /\ mounted
    /\ user[c] = Null
    /\ Len(flows) < MaxFlows
    /\ Len(fetches) < MaxFetches
    /\ user' = [user EXCEPT ![c] = u]
    /\ locationStatus' = "checking"
    /\ flows' = Append(flows, [user |-> u, currentDevice |-> currentDevice[c]])
    /\ fetches' = Append(fetches, Fetched(r1, r2))
    /\ UNCHANGED <<devices, showDeviceNaming, currentDevice, located, watchId, watches,
                   handled, mounted, allDeviceLocations, pageRest, relayRest>>

\* The Retry button, shown while locationStatus is 'denied'.
RequestLocationPermission(c) ==
    /\ mounted
    /\ user[c] # Null
    /\ ~showDeviceNaming[c]
    /\ locationStatus = "denied"
    /\ Len(flows) < MaxFlows
    /\ locationStatus' = "checking"
    /\ flows' = Append(flows, Closure(c))
    /\ UNCHANGED <<devices, user, showDeviceNaming, currentDevice, located, watchId,
                   watches, fetches, handled, mounted, allDeviceLocations, pageRest,
                   relayRest>>

\* The permission is denied or getCurrentPosition fails.
PositionDenied(c, i) ==
    /\ mounted
    /\ "position" \in horizon.kinds
    /\ i \in 1..Len(flows)
    /\ flows' = Without(flows, i)
    /\ locationStatus' = "denied"
    /\ UNCHANGED <<devices, user, showDeviceNaming, currentDevice, located, watchId,
                   watches, fetches, handled, mounted, allDeviceLocations, pageRest,
                   relayRest>>

\* getCurrentPosition succeeds: locationStatus 'granted', then
\* checkAndCreateDevice() of the render that made the call. A device found is
\* made the current one, its position is asked for and
\* startLocationTracking() is called, all from that same render; without a
\* device the naming screen is shown. Answers are followed while the user
\* who made the call is signed in.
PositionGranted(c, i, r) ==
    /\ mounted
    /\ "position" \in horizon.kinds
    /\ i \in 1..Len(flows)
    /\ flows[i].user = user[c]
    /\ LET f == flows[i]
           found == ExistingDevices(f.user, deviceUUID[c])
       IN  /\ f.currentDevice # Null => Cardinality(watches) < MaxWatches
           /\ flows' = Without(flows, i)
           /\ locationStatus' = "granted"
           /\ IF r # "ok"
              THEN UNCHANGED <<showDeviceNaming, currentDevice, located, watchId, watches>>
              ELSE IF found # {}
              THEN \E d \in found :
                      /\ currentDevice' = [currentDevice EXCEPT ![c] = d]
                      /\ showDeviceNaming' = [showDeviceNaming EXCEPT ![c] = FALSE]
                      /\ located' = located \cup {[device |-> d, seen |-> f.currentDevice]}
                      /\ StartLocationTracking(f.currentDevice)
              ELSE /\ showDeviceNaming' = [showDeviceNaming EXCEPT ![c] = TRUE]
                   /\ UNCHANGED <<currentDevice, located, watchId, watches>>
    /\ UNCHANGED <<devices, user, fetches, handled, mounted, allDeviceLocations,
                   pageRest, relayRest>>

\* saveDeviceName() with a name typed: the row is inserted; on success the
\* new device is made the current one, its position is asked for and
\* startLocationTracking() is called, all from the render of the click.
SaveDeviceNameAndTrack(c, r) ==
    /\ mounted
    /\ user[c] # Null
    /\ showDeviceNaming[c]
    /\ Cardinality(DOMAIN devices) < MaxRows
    /\ currentDevice[c] # Null => Cardinality(watches) < MaxWatches
    /\ IF r = "ok" /\ TokenConflicts(deviceUUID[c]) = {}
       THEN /\ devices' = [d \in DOMAIN devices \cup {NewDeviceId} |->
                              IF d = NewDeviceId
                              THEN [DeviceRow(user[c], deviceUUID[c]) EXCEPT !.is_online = TRUE]
                              ELSE devices[d]]
            /\ currentDevice' = [currentDevice EXCEPT ![c] = NewDeviceId]
            /\ showDeviceNaming' = [showDeviceNaming EXCEPT ![c] = FALSE]
            /\ located' = located \cup {[device |-> NewDeviceId, seen |-> currentDevice[c]]}
            /\ StartLocationTracking(currentDevice[c])
       ELSE UNCHANGED <<devices, currentDevice, showDeviceNaming, located, watchId, watches>>
    /\ UNCHANGED <<user, locationStatus, flows, fetches, handled, mounted,
                   allDeviceLocations, pageRest, relayRest>>

\* The position asked for by getCurrentLocationAndDisplay(device) arrives:
\* the device's entry of the list is replaced by one made of the position
\* and updateDeviceStatus(true) of the calling render runs ('location-update'
\* is emitted for the relay). A failure only shows a toast.
LocationDisplayed(c, l, got, r) ==
    /\ mounted
    /\ "position" \in horizon.kinds
    /\ l \in located
    /\ located' = located \ {l}
    /\ IF got
       THEN /\ allDeviceLocations' =
                   Append(OthersThan(allDeviceLocations, l.device),
                          [Entry(1, 1, TRUE, now, None) EXCEPT !.device_id = l.device])
            /\ devices' = StatusWritten(l.seen, TRUE, r)
       ELSE UNCHANGED <<allDeviceLocations, devices>>
    /\ UNCHANGED <<user, showDeviceNaming, currentDevice, locationStatus, flows, watchId,
                   watches, fetches, handled, mounted, pageRest, relayRest>>

\* A watch delivers a position: 'location-update' is emitted, for the relay,
\* with the device of the render that registered the watch, and that
\* render's updateDeviceStatus(true) runs.
WatchPosition(w, r) ==
    /\ w \in watches
    /\ devices' = StatusWritten(w.device, TRUE, r)
    /\ UNCHANGED <<user, showDeviceNaming, currentDevice, locationStatus, flows, located,
                   watchId, watches, fetches, handled, mounted, allDeviceLocations,
                   pageRest, relayRest>>

\* A watch reports an error: locationStatus 'denied' and
\* updateDeviceStatus(false); the watch stays registered.
WatchError(w, r) ==
    /\ w \in watches
    /\ locationStatus' = IF mounted THEN "denied" ELSE locationStatus
    /\ devices' = StatusWritten(w.device, FALSE, r)
    /\ UNCHANGED <<user, showDeviceNaming, currentDevice, flows, located, watchId,
                   watches, fetches, handled, mounted, allDeviceLocations, pageRest,
                   relayRest>>

\* handleSignOut(): the watch named by watchId is cleared and watchId reset,
\* updateDeviceStatus(false) runs for the current device, the user is signed
\* out and user and currentDevice are reset.
PageSignOut(c, r) ==
    /\ mounted
    /\ user[c] # Null
    /\ watches' = IF watchId # 0 THEN ClearWatch ELSE watches
    /\ watchId' = 0
    /\ devices' = StatusWritten(currentDevice[c], FALSE, r)
    /\ user' = [user EXCEPT ![c] = Null]
    /\ currentDevice' = [currentDevice EXCEPT ![c] = Null]
    /\ UNCHANGED <<showDeviceNaming, locationStatus, flows, located, fetches, handled,
                   mounted, allDeviceLocations, pageRest, relayRest>>

\* The cleanup of the mount effect: the socket is disconnected and the watch
\* named by watchId is cleared.
Unmount(c) ==
    /\ mounted
    /\ mounted' = FALSE
    /\ watches' = IF watchId # 0 THEN ClearWatch ELSE watches
    /\ status' = [status EXCEPT ![PageSocket] = IF @ = "connected" THEN "closed" ELSE @]
    /\ rooms' = [rooms EXCEPT ![PageSocket] = {}]
    /\ inbox' = [inbox EXCEPT ![PageSocket] = <<>>]
    /\ handled' = 0
    /\ UNCHANGED <<now, devices, location_history, emitted, events, pc, locals, sweeps,
                   sweepLog, user, showDeviceNaming, currentDevice, locationStatus, flows,
                   located, watchId, fetches, allDeviceLocations, pageRest>>

\* The answer of fetchAllDeviceLocations() arrives: the list becomes the
\* data fetched.
FetchReturns(c, i) ==
    /\ mounted
    /\ i \in 1..Len(fetches)
    /\ fetches' = Without(fetches, i)
    /\ allDeviceLocations' = IF fetches[i].set THEN fetches[i].data ELSE allDeviceLocations
    /\ UNCHANGED <<devices, user, showDeviceNaming, currentDevice, locationStatus, flows,
                   located, watchId, watches, handled, mounted, pageRest, relayRest>>

\* The next message the page's socket holds for its handlers.
Arrived == inbox[PageSocket][handled + 1]

\* The entry the 'location-updated' handler makes of a message: the event's
\* device, place and timestamp, then the fields of deviceInfo, whose row the
\* relay has just flagged online with the last_seen it computed.
BroadcastEntry(msg) ==
    [device_id |-> events[msg.ev].deviceId,
     latitude |-> events[msg.ev].latitude, longitude |-> events[msg.ev].latitude,
     timestamp |-> events[msg.ev].timestamp,
     is_online |-> msg.deviceInfo # Null,
     last_seen |-> IF msg.deviceInfo # Null THEN locals[msg.ev].last_seen ELSE None]

\* socket.on('location-updated'): the device's entry is replaced by one made
\* of the message.
OnLocationUpdated(c) ==
    /\ mounted
    /\ handled < Len(inbox[PageSocket])
    /\ Arrived.type = "location-updated"
    /\ handled' = handled + 1
    /\ allDeviceLocations' =
           Append(OthersThan(allDeviceLocations, events[Arrived.ev].deviceId),
                  BroadcastEntry(Arrived))
    /\ UNCHANGED <<devices, user, showDeviceNaming, currentDevice, locationStatus, flows,
                   located, watchId, watches, fetches, mounted, pageRest, relayRest>>

\* socket.on('device-status-updated'): the message is logged.
OnDeviceStatusUpdated(c) ==
    /\ mounted
    /\ handled < Len(inbox[PageSocket])
    /\ Arrived.type = "device-status-updated"
    /\ handled' = handled + 1
    /\ UNCHANGED <<devices, user, showDeviceNaming, currentDevice, locationStatus, flows,
                   located, watchId, watches, fetches, mounted, allDeviceLocations,
                   pageRest, relayRest>>

\* A message of a type the page registered no handler for is dropped.
OnOtherMessage(c) ==
    /\ mounted
    /\ handled < Len(inbox[PageSocket])
    /\ Arrived.type \notin {"location-updated", "device-status-updated"}
    /\ handled' = handled + 1
    /\ UNCHANGED <<devices, user, showDeviceNaming, currentDevice, locationStatus, flows,
                   located, watchId, watches, fetches, mounted, allDeviceLocations,
                   pageRest, relayRest>>

\* The page over the relay's store, in which d1 is flagged online and has one
\* sample, stored 120 s before the start. Three scenarios: the page as a
\* viewer of one location report, as a viewer of one status event with the
\* sweeper ticking (the browser's geolocation silent in both), and as a
\* tracker (geolocation answering, the relay idle).
PageHorizons ==
    { [ticks |-> 0, events |-> MaxEvents - 1, sockets |-> {PageSocket},
       users |-> {}, kinds |-> {"location"}],
      [ticks |-> MaxTicks - 2, events |-> MaxEvents - 1, sockets |-> {PageSocket},
       users |-> {}, kinds |-> {"status"}],
      [ticks |-> 0, events |-> 0, sockets |-> {},
       users |-> {}, kinds |-> {"position"}] }

InitHome ==
    /\ now = 0
    /\ devices = [d \in Devices |->
                     IF d = "d1"
                     THEN [DeviceRow("u1", "t1") EXCEPT !.is_online = TRUE,
                                                       !.last_seen = 0 - DemotionWindow]
                     ELSE DeviceRow("u2", "t2")]
    /\ location_history = {[ev |-> 0, device_id |-> "d1", latitude |-> 1,
                            timestamp |-> 0 - DemotionWindow]}
    /\ status = [s \in Sockets |-> "new"]
    /\ rooms = [s \in Sockets |-> {}]
    /\ inbox = [s \in Sockets |-> <<>>]
    /\ emitted = <<>>
    /\ events = <<>>
    /\ pc = <<>>
    /\ locals = <<>>
    /\ sweeps = {}
    /\ sweepLog = [tick |-> None, error |-> Unset, demoted |-> {}, notified |-> FALSE]
    /\ user = [c \in Clients |-> Null]
    /\ deviceUUID = [c \in Clients |-> PageToken]
    /\ showDeviceNaming = [c \in Clients |-> FALSE]
    /\ currentDevice = [c \in Clients |-> Null]
    /\ setupLog = {}
    /\ InitView
    /\ InitPage
    /\ server = ServerSetUp
    /\ horizon \in PageHorizons

NextHome ==
    \/ \E s \in Sockets : Connect(s)
    \/ \E s \in Sockets : JoinGlobal(s)
    \/ \E s \in Sockets : LocationUpdate(s)
    \/ \E e \in 1..MaxEvents, r \in StorageResults : e <= Len(events) /\ InsertReturns(e, r)
    \/ \E e \in 1..MaxEvents, r \in StorageResults : e <= Len(events) /\ UpdateReturns(e, r)
    \/ \E e \in 1..MaxEvents, r \in StorageResults : e <= Len(events) /\ LookupReturns(e, r)
    \/ \E s \in Sockets : DeviceStatus(s)
    \/ \E e \in 1..MaxEvents, r \in StorageResults : e <= Len(events) /\ StatusReturns(e, r)
    \/ SweepTick
    \/ \E t \in sweeps, r \in StorageResults : SweepReturns(t, r)
    \/ \E r1 \in StorageResults, r2 \in StorageResults : PageSignIn(Page, PageUser, r1, r2)
    \/ RequestLocationPermission(Page)
    \/ \E i \in 1..MaxFlows : PositionDenied(Page, i)
    \/ \E i \in 1..MaxFlows, r \in StorageResults : PositionGranted(Page, i, r)
    \/ \E r \in StorageResults : SaveDeviceNameAndTrack(Page, r)
    \/ \E l \in located, got \in BOOLEAN, r \in StorageResults : LocationDisplayed(Page, l, got, r)
    \/ \E w \in watches, r \in StorageResults : WatchPosition(w, r)
    \/ \E w \in watches, r \in StorageResults : WatchError(w, r)
    \/ \E r \in StorageResults : PageSignOut(Page, r)
    \/ Unmount(Page)
    \/ \E i \in 1..MaxFetches : FetchReturns(Page, i)
    \/ OnLocationUpdated(Page)
    \/ OnDeviceStatusUpdated(Page)
    \/ OnOtherMessage(Page)

SpecHome == InitHome /\ [][NextHome]_vars

\* The handlers of the page and the answers of the relay's storage calls are
\* run whenever they can be; nothing obliges a user, a device or the clock.
FairHome ==
    /\ WF_vars(OnLocationUpdated(Page))
    /\ WF_vars(OnDeviceStatusUpdated(Page))
    /\ WF_vars(OnOtherMessage(Page))
    /\ WF_vars(\E i \in 1..MaxFetches : FetchReturns(Page, i))

SpecHomeFair == SpecHome /\ FairHome

----------------------------------------------------------------------------
(* Claims *)

\* C1: a location broadcast of an event, to global or to a user room, is
\* emitted only if the insert of its sample and the update of its device both
\* returned without error (and the sample is stored); an event one of whose
\* storage calls failed has no broadcast.
C1_BroadcastOnlyAfterPersist ==
    /\ \A i \in 1..Len(emitted) :
          emitted[i].type \in {"location-updated", "device-location-updated"} =>
              /\ locals[emitted[i].ev].locationError = Null
              /\ locals[emitted[i].ev].deviceError = Null
              /\ \E row \in location_history : row.ev = emitted[i].ev
    /\ \A s \in Sockets : \A i \in 1..Len(inbox[s]) :
          inbox[s][i].type \in {"location-updated", "device-location-updated"} =>
              /\ locals[inbox[s][i].ev].locationError = Null
              /\ locals[inbox[s][i].ev].deviceError = Null

\* C1 witness: one event has just been broadcast while another was dropped on
\* a failed device update.
C1_Witness ==
    /\ \E i \in 1..Len(emitted) : emitted[i].type = "location-updated"
    /\ \E e \in 1..Len(events) : locals[e].deviceError = "error" /\ events[e].kind = "location"

\* C2 (as claimed): two reports of one device sent over one connection reach
\* every socket of global that gets both in the order they were sent.
C2_OrderPerDevice ==
    \A s \in Sockets : \A i, j \in 1..Len(inbox[s]) :
        ( /\ i < j
          /\ inbox[s][i].type = "location-updated"
          /\ inbox[s][j].type = "location-updated"
          /\ events[inbox[s][i].ev].from = events[inbox[s][j].ev].from
          /\ events[inbox[s][i].ev].deviceId = events[inbox[s][j].ev].deviceId )
        => inbox[s][i].ev < inbox[s][j].ev

\* C3: when the update of a sweeper tick succeeds, every device that was
\* flagged online with a last_seen more than the demotion window before the
\* tick is flagged offline by it.
C3_SweepDemotes ==
    [][ \A t \in sweeps :
          (t \notin sweeps' /\ sweepLog'.tick = t /\ sweepLog'.error = Null) =>
              \A d \in DOMAIN devices :
                  ( /\ devices[d].is_online
                    /\ devices[d].last_seen # None
                    /\ t - devices[d].last_seen > DemotionWindow )
                  => ~devices'[d].is_online ]_vars

\* C3 witness: a successful tick has cleared the flag of d1, which is still
\* offline with the last_seen it had.
C3_Witness ==
    /\ sweepLog.error = Null
    /\ "d1" \in sweepLog.demoted
    /\ ~devices["d1"].is_online
    /\ sweepLog.tick - devices["d1"].last_seen > DemotionWindow

\* C4 (as claimed): a resolved tick has notified global exactly when it
\* demoted at least one device.
C4_NotifyIffDemoted ==
    sweepLog.tick # None => (sweepLog.notified <=> sweepLog.demoted # {})

\* C4 (amended): a tick whose update returned without error emits exactly
\* one devices-offline-check to global, whether or not it demoted a device,
\* and a tick whose update failed emits nothing.
C4_NotifyIffNoError ==
    [][ \A t \in sweeps :
          (t \notin sweeps' /\ sweepLog'.tick = t) =>
              IF sweepLog'.error = Null
              THEN emitted' = <<Call(GlobalRoom, "devices-offline-check", 0, Null)>>
              ELSE emitted' = <<>> /\ sweepLog'.demoted = {} /\ inbox' = inbox ]_vars

\* C4 witness: a tick that found no device to demote has just notified a
\* socket of global.
C4_Witness ==
    /\ sweepLog.error = Null
    /\ sweepLog.demoted = {}
    /\ emitted = <<Call(GlobalRoom, "devices-offline-check", 0, Null)>>
    /\ \E s \in Sockets :
          /\ inbox[s] # <<>>
          /\ inbox[s][Len(inbox[s])] = Msg("devices-offline-check", 0, Null)

\* C5 (as claimed): the handler of every location event whose sample and
\* device update were stored ends by broadcasting the event, with the metadata
\* of its device, to global and to the room of the device's owner.
C5_EnrichedToGlobalAndOwner ==
    [][ \A e \in 1..Len(events) :
          (pc[e] = "lookup" /\ pc'[e] # "lookup") =>
              LET owner == devices[events[e].deviceId].user_id
              IN  emitted' = <<Call(GlobalRoom, "location-updated", e, owner),
                               Call(UserRoom(owner), "device-location-updated", e, owner)>> ]_vars

\* C6 (as claimed): when the device update of a location event succeeds, the
\* stored last_seen is the timestamp of the event (the receipt time when the
\* event carries none) and the stored flag is online.
C6_LastSeenIsEventTimestamp ==
    [][ \A e \in 1..Len(events) :
          (pc[e] = "update" /\ pc'[e] = "lookup") =>
              /\ devices'[events[e].deviceId].last_seen = locals[e].timestamp
              /\ devices'[events[e].deviceId].is_online ]_vars

\* C6 (amended): when the device update of a location event succeeds, the
\* stored last_seen is the reading of the server clock the handler took when it
\* issued the update, whatever timestamp the event carries, and the stored
\* flag is online.
C6_LastSeenIsServerTime ==
    [][ \A e \in 1..Len(events) :
          (pc[e] = "update" /\ pc'[e] = "lookup") =>
              /\ devices'[events[e].deviceId].last_seen = locals[e].last_seen
              /\ locals[e].last_seen <= now
              /\ devices'[events[e].deviceId].is_online ]_vars

\* C6 witness: an event stamped by the client before the server clock reading
\* was accepted, and the device carries the server's reading.
C6_Witness ==
    \E e \in 1..Len(events) :
        /\ events[e].kind = "location"
        /\ pc[e] = "done"
        /\ events[e].timestamp # None
        /\ events[e].timestamp < locals[e].last_seen
        /\ devices[events[e].deviceId].last_seen = locals[e].last_seen
        /\ devices[events[e].deviceId].is_online

\* C7: when the update of a status event succeeds, the device row carries the
\* event's flag and battery level and the handler's clock reading as
\* last_seen, and the event is emitted to global; when it fails, the row is
\* untouched and nothing is emitted.
C7_StatusUpdateThenBroadcast ==
    [][ \A e \in 1..Len(events) :
          (pc[e] = "status" /\ pc'[e] # "status") =>
              IF locals'[e].deviceError = Null
              THEN /\ devices'[events[e].deviceId].is_online = events[e].isOnline
                   /\ devices'[events[e].deviceId].battery_level = events[e].batteryLevel
                   /\ devices'[events[e].deviceId].last_seen = locals[e].last_seen
                   /\ locals[e].last_seen <= now
                   /\ emitted' = <<Call(GlobalRoom, "device-status-updated", e, Null)>>
              ELSE /\ devices' = devices
                   /\ emitted' = <<>>
                   /\ inbox' = inbox ]_vars

\* C7 witness: a status event that reports offline with a battery level was
\* stored and relayed to a socket of global.
C7_Witness ==
    \E e \in 1..Len(events) :
        /\ events[e].kind = "status"
        /\ pc[e] = "done"
        /\ ~events[e].isOnline
        /\ events[e].batteryLevel = 80
        /\ devices[events[e].deviceId].battery_level = 80
        /\ ~devices[events[e].deviceId].is_online
        /\ \E s \in Sockets : \E i \in 1..Len(inbox[s]) :
              inbox[s][i] = Msg("device-status-updated", e, Null)

\* C8: the devices table never holds two rows for one (owner, token) pair,
\* and all setup flows that ended with a device for one pair ended with the
\* same device.
C8_SetupIdempotent ==
    /\ \A d1, d2 \in DOMAIN devices :
          ( /\ devices[d1].user_id = devices[d2].user_id
            /\ devices[d1].device_token = devices[d2].device_token ) => d1 = d2
    /\ \A a, b \in setupLog :
          ( /\ a.outcome # "rejected" /\ b.outcome # "rejected"
            /\ a.user = b.user /\ a.token = b.token ) => a.device = b.device

\* C8 witness: one page created the device of a pair, another page of the same
\* owner and token had its insert refused, and a later run found the device.
C8_Witness ==
    \E a, b, c \in setupLog :
        /\ a.outcome = "created" /\ b.outcome = "found" /\ c.outcome = "rejected"
        /\ a.user = b.user /\ a.token = b.token /\ a.device = b.device
        /\ c.user = a.user /\ c.token = a.token /\ c.client # a.client

\* C9 (as claimed): an owner's registration is never refused because another
\* owner holds a device with the same install token.
C9_PairIsTheKey ==
    \A x \in setupLog :
        x.outcome = "rejected" => devices[x.device].user_id = x.user

\* C10 (as claimed): every connected socket is in the global room.
C10_ConnectedInGlobal ==
    \A s \in Sockets : status[s] = "connected" => GlobalRoom \in rooms[s]

\* C10 (amended): a socket enters the global room when its join-global event
\* is handled and by nothing else, and stays in it for as long as it is
\* connected.
C10_InGlobalFromJoinToDisconnect ==
    [][ \A s \in Sockets :
          /\ JoinGlobal(s) => GlobalRoom \in rooms'[s]
          /\ (GlobalRoom \in rooms[s] /\ status'[s] = "connected") => GlobalRoom \in rooms'[s]
          /\ (GlobalRoom \in rooms'[s] /\ GlobalRoom \notin rooms[s]) => JoinGlobal(s) ]_vars

\* C10 witness: of two connected sockets one has joined global and received a
\* broadcast, the other has joined a user room only.
C10_Witness ==
    \E s, t \in Sockets :
        /\ status[s] = "connected" /\ GlobalRoom \in rooms[s] /\ inbox[s] # <<>>
        /\ status[t] = "connected" /\ GlobalRoom \notin rooms[t] /\ rooms[t] # {}

\* C11 (as claimed): a socket is in at most one user room, whatever join-user
\* events it has sent.
C11_AtMostOneUserRoom ==
    \A s \in Sockets : Cardinality(rooms[s] \ {GlobalRoom}) <= 1

\* C12: a socket whose only room is the room of user v is delivered nothing
\* but the device-location-updated messages of reports of v's devices.
C12_UserRoomIsolation ==
    [][ \A s \in Sockets, v \in Users :
          (status[s] = "connected" /\ rooms[s] = {UserRoom(v)}) =>
              \A i \in (Len(inbox[s]) + 1)..Len(inbox'[s]) :
                  /\ inbox'[s][i].type = "device-location-updated"
                  /\ devices[events[inbox'[s][i].ev].deviceId].user_id = v ]_vars

\* C12 witness: the report of a device of u1 was delivered to a socket of the
\* room of u1, and a socket whose only room is the room of u2 got nothing.
C12_Witness ==
    \E s, t \in Sockets, e \in 1..Len(events) :
        /\ status[s] = "connected" /\ rooms[s] = {UserRoom("u2")}
        /\ inbox[s] = <<>>
        /\ pc[e] = "done"
        /\ devices[events[e].deviceId].user_id = "u1"
        /\ emitted = <<Call(GlobalRoom, "location-updated", e, "u1"),
                       Call(UserRoom("u1"), "device-location-updated", e, "u1")>>
        /\ status[t] = "connected" /\ UserRoom("u1") \in rooms[t]
        /\ inbox[t] # <<>>
        /\ inbox[t][Len(inbox[t])] = Msg("device-location-updated", e, "u1")

\* C19: a tick whose update fails or throws emits nothing and changes no
\* device; the next tick is scheduled all the same, and a later tick whose
\* update succeeds demotes every device still online that the failed tick
\* should have demoted.
C19_FailedTickIsRetried ==
    /\ [](( /\ sweepLog.error = "error"
            /\ now < horizon.ticks * SweepInterval
            /\ Cardinality(sweeps) < MaxPendingSweeps ) => ENABLED SweepTick)
    /\ [][ \A t \in sweeps :
             (t \notin sweeps' /\ sweepLog'.tick = t) =>
                 /\ sweepLog'.error = "error" =>
                       (emitted' = <<>> /\ inbox' = inbox /\ devices' = devices)
                 /\ (sweepLog'.error = Null /\ sweepLog.error = "error" /\ sweepLog.tick < t) =>
                       \A d \in DOMAIN devices :
                           ( /\ devices[d].is_online
                             /\ devices[d].last_seen # None
                             /\ devices[d].last_seen < sweepLog.tick - DemotionWindow )
                           => ~devices'[d].is_online ]_vars

\* C19 witness: d1 was online and past the window at the tick before the
\* last one, which left it so, and the last tick has demoted it.
C19_Witness ==
    /\ sweepLog.error = Null
    /\ "d1" \in sweepLog.demoted
    /\ devices["d1"].last_seen < sweepLog.tick - SweepInterval - DemotionWindow
    /\ sweepLog.tick - SweepInterval > 0

\* C20 (as claimed): the handler of a location event that has no latitude or
\* names no registered device stores no sample, changes no device, emits
\* nothing and leaves the socket connected.
C20_RejectedEventChangesNothing ==
    [][ \A e \in 1..Len(events) :
          ( /\ events[e].kind = "location"
            /\ (events[e].latitude = None \/ events[e].deviceId \notin DOMAIN devices)
            /\ pc'[e] # pc[e] )
          => /\ location_history' = location_history
             /\ devices' = devices
             /\ emitted' = <<>>
             /\ status' = status ]_vars

C14_ZoomStepFunction ==
    (logged.method = "showBothDevices" /\ logged.distance # None) =>
          LET d == logged.distance
              named == {i \in 1..Len(allDeviceLocations) :
                           /\ allDeviceLocations[i].device_id \in logged.deviceIds
                           /\ allDeviceLocations[i].latitude \notin {0, NoCoord}
                           /\ allDeviceLocations[i].longitude \notin {0, NoCoord}}
              first == Least(named)
              second == Least(named \ {first})
          IN  /\ d = Abs(allDeviceLocations[first].latitude
                         - allDeviceLocations[second].latitude)
              /\ mapView.call = "fitBounds"
              /\ <<mapView.maxZoom, mapView.padding>> =
                    CASE d < 50 -> <<18, 10>>
                      [] 50 <= d /\ d < 200 -> <<17, 15>>
                      [] 200 <= d /\ d < 1000 -> <<15, 20>>
                      [] 1000 <= d /\ d < 5000 -> <<13, 30>>
                      [] 5000 <= d /\ d < 25000 -> <<11, 40>>
                      [] d >= 25000 -> <<9, 50>>
              /\ \A greater \in {x \in DistanceSamples : x >= d} :
                    /\ ZoomForDistance(greater).maxZoom <= mapView.maxZoom
                    /\ ZoomForDistance(greater).padding >= mapView.padding

\* C14 witness: two devices exactly 50 m apart are fitted with ceiling 17 and
\* padding 15.
C14_Witness ==
    /\ logged.method = "showBothDevices"
    /\ logged.distance = 50
    /\ logged.valid = 2
    /\ mapView.call = "fitBounds"
    /\ mapView.maxZoom = 17
    /\ mapView.padding = 15

\* C15: a call of showBothDevices with no device ids, or with ids none of
\* which names an entry that has coordinates, leaves the view of the map as
\* it was.
C15_NoPointsNoOp ==
    [][ ( /\ logged'.method = "showBothDevices"
          /\ \A i \in 1..Len(allDeviceLocations) :
                \/ allDeviceLocations[i].device_id \notin logged'.deviceIds
                \/ allDeviceLocations[i].latitude \in {0, NoCoord}
                \/ allDeviceLocations[i].longitude \in {0, NoCoord} )
        => mapView' = mapView ]_vars

\* C15 witness: the map was fitted to two markers, then showBothDevices was
\* called with an id that names no entry, and the fit is still in force.
C15_Witness ==
    /\ logged.method = "showBothDevices"
    /\ logged.deviceIds = {0}
    /\ logged.valid = 0
    /\ Len(allDeviceLocations) = 2
    /\ mapView.call = "fitBounds"
    /\ mapView.maxZoom = 16

\* C16: when exactly one point is to be shown (showBothDevices finds one
\* device; or the page holds one entry, with coordinates, and none is
\* selected when the markers are drawn) the map is centered on it at zoom 16.
C16_SinglePointZoom ==
    [][ /\ logged'.method = "showBothDevices" =>
              LET named == {i \in 1..Len(allDeviceLocations) :
                               /\ allDeviceLocations[i].device_id \in logged'.deviceIds
                               /\ allDeviceLocations[i].latitude \notin {0, NoCoord}
                               /\ allDeviceLocations[i].longitude \notin {0, NoCoord}}
              IN  (shown.rendered /\ Cardinality(named) = 1) =>
                      \A i \in named :
                          /\ mapView'.call = "setView"
                          /\ mapView'.center = <<allDeviceLocations[i].latitude,
                                                 allDeviceLocations[i].longitude>>
                          /\ mapView'.zoom = 16
        /\ ( /\ shown' # shown
             /\ selectedDevice' = NoDevice
             /\ Len(allDeviceLocations) = 1
             /\ shown'.marker[1] # NoMarker ) =>
                  /\ mapView'.call = "setView"
                  /\ mapView'.center = <<allDeviceLocations[1].latitude,
                                         allDeviceLocations[1].longitude>>
                  /\ mapView'.zoom = 16 ]_vars

\* C16 witness: of two ids one names an entry with coordinates, and
\* showBothDevices has centered the map on it at zoom 16.
C16_Witness ==
    /\ logged.method = "showBothDevices"
    /\ logged.valid = 1
    /\ Cardinality(logged.deviceIds) = 2
    /\ mapView.call = "setView"
    /\ mapView.zoom = 16
    /\ \E i \in 1..Len(allDeviceLocations) :
          /\ i \in logged.deviceIds
          /\ mapView.center = <<allDeviceLocations[i].latitude, allDeviceLocations[i].longitude>>

\* C17 (as claimed): when showBothDevices is given two entries or more whose
\* coordinates are valid (latitude within a quarter arc of the equator,
\* longitude within a half arc of Greenwich, 0 included), the bounds it fits
\* the map to cover each of them.
C17_BoundsCoverAllPoints ==
    (logged.method = "showBothDevices" /\ shown.rendered) =>
        LET supplied == {i \in 1..Len(allDeviceLocations) :
                            /\ allDeviceLocations[i].device_id \in logged.deviceIds
                            /\ Abs(allDeviceLocations[i].latitude) <= QuarterArc
                            /\ Abs(allDeviceLocations[i].longitude) <= 2 * QuarterArc}
        IN  Cardinality(supplied) >= 2 =>
                /\ mapView.call = "fitBounds"
                /\ \A i \in supplied :
                      /\ mapView.bounds.south <= allDeviceLocations[i].latitude
                      /\ allDeviceLocations[i].latitude <= mapView.bounds.north
                      /\ mapView.bounds.west <= allDeviceLocations[i].longitude
                      /\ allDeviceLocations[i].longitude <= mapView.bounds.east

\* C18: when showBothDevices finds three devices or more, the zoom ceiling
\* and the padding of its fit are those it chooses for the first two alone,
\* and those it chooses for the first two followed by any other point.
C18_OnlyFirstTwoMatter ==
    (logged.method = "showBothDevices" /\ logged.valid # None /\ logged.valid >= 3) =>
        LET Named(d) == /\ d.device_id \in logged.deviceIds
                        /\ d.latitude \notin {0, NoCoord}
                        /\ d.longitude \notin {0, NoCoord}
            found == SelectSeq(allDeviceLocations, Named)
            firstTwo == SubSeq(found, 1, 2)
            others == {firstTwo} \cup
                      {Append(firstTwo, e) :
                          e \in {x \in LaterEntries : /\ x.latitude \notin {0, NoCoord}
                                                      /\ x.longitude \notin {0, NoCoord}}}
        IN  /\ Len(found) = logged.valid
            /\ \A other \in others :
                  /\ FitFor(other).maxZoom = mapView.maxZoom
                  /\ FitFor(other).padding = mapView.padding

\* C18 witness: the first two of three devices are 30 m apart, the third is
\* tens of kilometres away, and the fit has ceiling 18 and padding 10 over
\* bounds that reach the third.
C18_Witness ==
    /\ logged.method = "showBothDevices"
    /\ logged.valid = 3
    /\ logged.distance = 30
    /\ mapView.call = "fitBounds"
    /\ mapView.maxZoom = 18
    /\ mapView.padding = 10
    /\ mapView.bounds.north - mapView.bounds.south > 25000

\* C21: a location event that carries no timestamp is given the reading of
\* the server clock at its receipt, and the sample stored for it carries that
\* reading, whenever the insert resolves.
C21_TimestampDefaultsToReceipt ==
    [][ /\ ( /\ Len(events') = Len(events) + 1
             /\ events'[Len(events')].kind = "location"
             /\ events'[Len(events')].timestamp = None )
           => locals'[Len(events')].timestamp = now
        /\ \A e \in 1..Len(events) :
              (pc[e] = "insert" /\ pc'[e] = "update" /\ events[e].timestamp = None) =>
                  \E row \in location_history' \ location_history :
                      /\ row.ev = e
                      /\ row.timestamp = locals[e].timestamp
                      /\ row.timestamp <= now ]_vars

\* C21 witness: an event without a timestamp was received at time 0, its
\* insert resolved after the clock had moved on, and the sample stored carries
\* time 0.
C21_Witness ==
    \E e \in 1..Len(events) : \E row \in location_history :
        /\ events[e].timestamp = None
        /\ row.ev = e
        /\ row.timestamp = 0
        /\ now > 0

\* C22 (as claimed): when a storage call of a location event fails, an error
\* is delivered to the socket the event came from, and the socket stays
\* connected.
C22_ErrorSurfacedToCaller ==
    [][ \A e \in 1..Len(events) :
          ( /\ events[e].kind = "location"
            /\ pc[e] # "aborted" /\ pc'[e] = "aborted" )
          => /\ status' = status
             /\ Len(inbox'[events[e].from]) > Len(inbox[events[e].from]) ]_vars

\* C30: however many requests the socket endpoint has handled, the server
\* carries exactly one Socket.IO server, one connection handler and one
\* sweeper interval once the first request has been handled, and none before.
C30_OneServerOneSweeper ==
    /\ server.io <=> server.requests > 0
    /\ server.servers = (IF server.requests > 0 THEN 1 ELSE 0)
    /\ server.connectionHandlers = server.servers
    /\ server.intervals = server.servers

\* C30 witness: the endpoint has handled more than one request, a socket is
\* connected and a tick of the one interval has resolved.
C30_Witness ==
    /\ server.requests >= 2
    /\ emitted = <<>>
    /\ sweepLog.tick # None
    /\ \E s \in Sockets : status[s] = "connected"
    /\ server.intervals = 1

\* C25: the write of a sweeper tick clears the flag of no device whose
\* stored last_seen is within the demotion window of the clock when the write
\* is applied, whatever location reports of the device are in flight, and it
\* changes the last_seen and the battery level of no device.
C25_SweepSparesFreshDevices ==
    [][ \A t \in sweeps :
          (t \notin sweeps' /\ sweepLog'.tick = t) =>
              \A d \in DOMAIN devices :
                  /\ (devices[d].is_online /\ ~devices'[d].is_online) =>
                        /\ devices[d].last_seen # None
                        /\ now - devices[d].last_seen > DemotionWindow
                  /\ devices'[d].last_seen = devices[d].last_seen
                  /\ devices'[d].battery_level = devices[d].battery_level ]_vars

\* C25 witness: a report of d1 was received before the first tick that would
\* have demoted d1 and its device update was applied before the write of that
\* tick, which has left d1 online with the last_seen of the report.
C25_Witness ==
    /\ sweepLog.error = Null
    /\ sweepLog.demoted = {}
    /\ sweepLog.tick - DemotionWindow > 0 - 3 * SweepInterval
    /\ sweepLog.tick - SweepInterval - DemotionWindow <= 0 - 3 * SweepInterval
    /\ devices["d1"].is_online
    /\ \E e \in 1..Len(events) :
          /\ events[e].kind = "location"
          /\ events[e].deviceId = "d1"
          /\ pc[e] = "lookup"
          /\ devices["d1"].last_seen = locals[e].last_seen
          /\ locals[e].last_seen < sweepLog.tick

C24_OfflineReachesViewer ==
    \A d \in Devices :
        ( /\ ~devices[d].is_online
          /\ \E k \in 1..Len(inbox[PageSocket]) :
                LET msg == inbox[PageSocket][k]
                IN  \/ msg.type = "devices-offline-check"
                    \/ /\ msg.type = "device-status-updated"
                       /\ events[msg.ev].deviceId = d
                       /\ ~events[msg.ev].isOnline
          /\ \E i \in 1..Len(allDeviceLocations) :
                /\ allDeviceLocations[i].device_id = d
                /\ allDeviceLocations[i].is_online )
        ~> ( \/ devices[d].is_online
             \/ ~mounted
             \/ \A i \in 1..Len(allDeviceLocations) :
                   allDeviceLocations[i].device_id = d => ~allDeviceLocations[i].is_online )

\* C26: in the step in which the setup flow makes a device the current one
\* (checkAndCreateDevice recognised it, or saveDeviceName saved it), a
\* geolocation watch is registered for that device and watchId names it.
C26_SetupStartsTracking ==
    [][ (currentDevice[Page] = Null /\ currentDevice'[Page] # Null)
        => \E w \in watches' : /\ w \notin watches
                               /\ w.id = watchId'
                               /\ w.device = currentDevice'[Page] ]_vars

\* C27: at most one geolocation watch is registered, the one watchId names,
\* and none is while the user is signed out or once the page is unmounted.
C27_AtMostTheWatchOfWatchId ==
    /\ Cardinality(watches) <= 1
    /\ \A w \in watches : w.id = watchId
    /\ (user[Page] = Null \/ ~mounted) => watches = {}

\* C28: the device list of the page never holds two entries of one device.
C28_OneEntryPerDevice ==
    \A i \in 1..Len(allDeviceLocations), j \in 1..Len(allDeviceLocations) :
        i # j => allDeviceLocations[i].device_id # allDeviceLocations[j].device_id

\* C29: when the answer of a fetch is applied, no entry the page holds from a
\* location-updated broadcast it has handled (the entry carries the device
\* and the timestamp of the broadcast) is replaced by older data: the entry
\* the list then shows for the device, its first, is not older.
C29_FetchKeepsNewerBroadcast ==
    [][ Len(fetches') < Len(fetches) =>
          \A k \in 1..handled, i \in 1..Len(allDeviceLocations) :
              LET msg == inbox[PageSocket][k]
                  entry == allDeviceLocations[i]
                  after == {j \in 1..Len(allDeviceLocations') :
                               allDeviceLocations'[j].device_id = entry.device_id}
              IN  ( /\ msg.type = "location-updated"
                    /\ entry.device_id = events[msg.ev].deviceId
                    /\ entry.timestamp = events[msg.ev].timestamp
                    /\ entry.timestamp # None
                    /\ after # {} )
                  => allDeviceLocations'[Least(after)].timestamp >= entry.timestamp ]_vars

====
